---- MODULE Spec2Model ----
(***************************************************************************)
(* Career-history unpivot of ReclutamientoLegislativoMx.                   *)
(*                                                                         *)
(* Three programs of the repository reshape Sheet3 (one row per life event *)
(* of a deputy) into one wide row per deputy:                              *)
(*   lxi_script.py                  (polars, canonical tipo_actividad_std) *)
(*   lxi_dataprocessing_polars.py   (polars, filters on the raw tipo)      *)
(*   process_lxi_data.py            (pandas script, filters on raw labels) *)
(* multiarchivo_procesamiento_congreso.py shares the column reordering of  *)
(* lxi_script.py and appears in the column-order runs only.                *)
(* A behaviour is one run of one of the programs on one bounded input.     *)
(*                                                                         *)
(* Values: a cell is Null, Str(s) or Num(n).  A dict is the sequence of    *)
(* its <<key, value>> pairs in insertion order.  A DataFrame is a record   *)
(* [columns |-> sequence of names, rows |-> sequence of functions].        *)
(***************************************************************************)
EXTENDS Integers, Sequences, FiniteSets, TLC

VARIABLES
    prog,                 \* which program runs
    df_sheet1_processed,  \* table of process_sheet1, projected on dip_id
    df_sheet2_processed,  \* table of process_sheet2: dip_id, total_comites
    sheet3,               \* Sheet3 as loaded
    pc,                   \* position of the run
    df,                   \* the event frame the member loop reads
    ids,                  \* dip_id values the member loop still has to visit
    results,              \* flat records accumulated by the member loop
    df_sheet3_processed,  \* table returned by process_sheet3
    df_final,             \* table after merge_dataframes
    output_file,          \* what config.output_file holds on disk
    files,                \* the list process_batch was called with
    skip_existing,        \* process_batch's skip_existing argument
    batch_idx,            \* how many files the batch loop has handled
    batch_results,        \* the results dictionary of process_batch
    disk                  \* modification time of each file's output, 0 if absent

file_vars == <<output_file, files, skip_existing, batch_idx, batch_results,
               disk>>

vars == <<prog, df_sheet1_processed, df_sheet2_processed, sheet3, pc, df,
          ids, results, df_sheet3_processed, df_final, output_file, files,
          skip_existing, batch_idx, batch_results, disk>>

\* Nothing written and no batch under way
NoFile == [exists |-> FALSE, table |-> <<>>]
Parquet(frame) == [exists |-> TRUE, table |-> frame]
NoFilesTouched ==
    /\ output_file = NoFile
    /\ files = <<>>
    /\ skip_existing = FALSE
    /\ batch_idx = 0
    /\ batch_results = <<>>
    /\ disk = <<>>

---------------------------------------------------------------------------
(* Bounds *)
MaxRows == 3
MaxDip == 2
MaxFiles == 2
MaxCommittees == 2

---------------------------------------------------------------------------
(* Cell values *)
Null == <<"null">>
Str(s) == <<"str", s>>
Num(n) == <<"int", n>>

\* str(value): text is unchanged, an integer is printed in decimal
py_str(value) ==
    IF value[1] = "int" THEN Str(ToString(value[2])) ELSE value

Range(s) == {s[i] : i \in 1..Len(s)}

\* the i-th smallest element of a set of integers
Nth(S, i) == CHOOSE k \in S : Cardinality({j \in S : j <= k}) = i

---------------------------------------------------------------------------
(* Python dict: pairs in insertion order, a later write to a key replaces  *)
(* the value in place                                                      *)
Has(d, k) == \E i \in 1..Len(d) : d[i][1] = k

Get(d, k) == d[CHOOSE i \in 1..Len(d) : d[i][1] = k][2]

Keys(d) == {d[i][1] : i \in 1..Len(d)}

Put(d, k, v) ==
    IF Has(d, k)
    THEN [i \in 1..Len(d) |-> IF d[i][1] = k THEN <<k, v>> ELSE d[i]]
    ELSE Append(d, <<k, v>>)

RECURSIVE Update(_, _)
Update(d, e) ==
    IF e = <<>> THEN d
    ELSE Update(Put(d, Head(e)[1], Head(e)[2]), Tail(e))

---------------------------------------------------------------------------
(* DataFrame primitives *)
EmptyFrame(cols) == [columns |-> cols, rows |-> <<>>]

is_empty(frame) == Len(frame.rows) = 0

\* frame.filter(pl.col(c) == value), rows kept in their order
filter(frame, c, value) ==
    [columns |-> frame.columns,
     rows |-> SelectSeq(frame.rows, LAMBDA r : r[c] = value)]

column(frame, c) == [i \in 1..Len(frame.rows) |-> frame.rows[i][c]]

\* variant: repeated values are kept
unique_keeps_repeats(s) == s

\* each value once, in the order of first appearance (pandas unique())
unique(s) ==
    LET first == {i \in 1..Len(s) : \A j \in 1..(i - 1) : s[j] # s[i]}
    IN [k \in 1..Cardinality(first) |-> s[Nth(first, k)]]

\* polars Series.unique(): each value once, in an order polars does not
\* promise; the order of first appearance and its reverse are kept as the
\* outcomes
unique_any_order(s) ==
    {unique(s), [i \in 1..Len(unique(s)) |-> unique(s)[Len(unique(s)) + 1 - i]]}

\* variant: the order of the input is kept
sort_keeps_order(s) == s

\* Series.sort(): ascending; position k holds the value v with fewer than
\* k elements below it and at least k elements not above it
sort(s) ==
    [k \in 1..Len(s) |->
        CHOOSE v \in Range(s) :
            /\ Cardinality({i \in 1..Len(s) : s[i] < v}) < k
            /\ Cardinality({i \in 1..Len(s) : s[i] <= v}) >= k]

\* pl.DataFrame(data) is called without infer_schema_length, whose default
\* is 100: the schema is read from the first 100 records only
infer_schema_length == 100

\* the keys of the records in order of first appearance; the keys of the
\* first half are computed before the second half is scanned
RECURSIVE SchemaOf(_, _)
SchemaOf(records, acc) ==
    IF records = <<>> THEN acc
    ELSE IF Len(records) = 1
    THEN LET rec == records[1]
         IN acc \o SelectSeq([i \in 1..Len(rec) |-> rec[i][1]],
                             LAMBDA k : k \notin Range(acc))
    ELSE LET half == Len(records) \div 2
             seen == SchemaOf(SubSeq(records, 1, half), acc)
         IN IF Len(seen) = 0
            THEN SchemaOf(SubSeq(records, half + 1, Len(records)), <<>>)
            ELSE SchemaOf(SubSeq(records, half + 1, Len(records)), seen)

\* the records the schema is inferred from
Scanned(records) ==
    SubSeq(records, 1, IF Len(records) < infer_schema_length
                       THEN Len(records) ELSE infer_schema_length)

\* variant: a key a record lacks is written as the empty string
DataFrame_blank_fill(records) ==
    LET cols == SchemaOf(Scanned(records), <<>>)
    IN [columns |-> cols,
        rows |-> [i \in 1..Len(records) |->
                    [c \in Range(cols) |->
                        IF Has(records[i], c) THEN Get(records[i], c)
                        ELSE Str("")]]]

\* pl.DataFrame(list of dicts): the columns are the keys of the scanned
\* records, a key a record lacks is null in its row, a key outside the
\* schema is left out
DataFrame(records) ==
    LET cols == SchemaOf(Scanned(records), <<>>)
    IN [columns |-> cols,
        rows |-> [i \in 1..Len(records) |->
                    [c \in Range(cols) |->
                        IF Has(records[i], c) THEN Get(records[i], c)
                        ELSE Null]]]

\* pd.DataFrame.from_dict(d, orient='index'): the columns are the keys of
\* all the records, a key a record lacks is a missing value in its row
from_dict(records) ==
    LET cols == SchemaOf(records, <<>>)
    IN [columns |-> cols,
        rows |-> [i \in 1..Len(records) |->
                    [c \in Range(cols) |->
                        IF Has(records[i], c) THEN Get(records[i], c)
                        ELSE Null]]]

---------------------------------------------------------------------------
(* lxi_script.py *)

TIPO_ACTIVIDAD_MAPPING ==
    ("ESCOLARIDAD" :> "escolaridad") @@
    ("TRAYECTORIA POLITICA" :> "exp_politica") @@
    ("TRAYECTORIA POLÍTICA" :> "exp_politica") @@
    ("INICIATIVA PRIVADA" :> "exp_laboral_privada") @@
    ("EXPERIENCIA LEGISLATIVA" :> "exp_leg_previa") @@
    ("ADMINISTRACION PUBLICA FEDERAL" :> "exp_apf") @@
    ("ADMINISTRACIÓN PÚBLICA FEDERAL" :> "exp_apf") @@
    ("ADMINISTRACION PUBLICA LOCAL" :> "exp_aplocal") @@
    ("ADMINISTRACIÓN PÚBLICA LOCAL" :> "exp_aplocal") @@
    ("CARGOS EN LEGISLATURAS LOCALES O FEDERALES" :> "cargos_legislativos_previa") @@
    ("CARGOS DE ELECCION POPULAR" :> "cargos_electos_previos") @@
    ("CARGOS DE ELECCIÓN POPULAR" :> "cargos_electos_previos") @@
    ("ASOCIACIONES A LAS QUE PERTENECE" :> "exp_asociaciones") @@
    ("ACTIVIDADES DOCENTES" :> "exp_docente") @@
    ("PUBLICACIONES" :> "publicaciones") @@
    ("Actividad Empresarial" :> "exp_empresarial") @@
    ("LOGROS DEPORTIVOS MAS DESTACADOS" :> "logros_deportivos") @@
    ("LOGROS DEPORTIVOS MÁS DESTACADOS" :> "logros_deportivos")

\* variant: a label outside the mapping is replaced by the empty text
replace_strict_blank_default(mapping, value) ==
    IF value \in DOMAIN mapping THEN mapping[value] ELSE ""

\* replace_strict(mapping, default=pl.col(...)): the mapped value on a hit,
\* the value itself on a miss
replace_strict(mapping, value) ==
    IF value \in DOMAIN mapping THEN mapping[value] ELSE value

\* variant: the suffix is the 0-based loop index
FieldName_zero_based(prefix, idx) == prefix \o ToString(idx)

\* f"{prefix}{idx + 1}"
FieldName(prefix, idx) == prefix \o ToString(idx + 1)

\* variant: a null cell is returned as it is
safe_get_value_keeps_null(frame, col, idx, default) ==
    IF col \notin Range(frame.columns) THEN default
    ELSE IF idx + 1 > Len(frame.rows) THEN default
    ELSE py_str(frame.rows[idx + 1][col])

\* variant: the rows of the partition are read from the last one back
safe_get_value_from_end(frame, col, idx, default) ==
    IF col \notin Range(frame.columns) THEN default
    ELSE IF idx + 1 > Len(frame.rows) THEN default
    ELSE LET value == frame.rows[Len(frame.rows) - idx][col]
         IN IF value # Null THEN py_str(value) ELSE default

safe_get_value(frame, col, idx, default) ==
    IF col \notin Range(frame.columns) THEN default
    ELSE IF idx + 1 > Len(frame.rows) THEN default
    ELSE LET value == frame.rows[idx + 1][col]
         IN IF value # Null THEN py_str(value) ELSE default

\* for idx in range(len(part)): profile[f"{prefix}{idx + 1}"] =
\*     safe_get_value(part, column, idx)   for every <<prefix, column>>
RECURSIVE DetailLoop(_, _, _, _)
DetailLoop(profile, part, fields, idx) ==
    IF idx >= Len(part.rows) THEN profile
    ELSE LET written ==
                 [j \in 1..Len(fields) |->
                     <<FieldName(fields[j][1], idx),
                       safe_get_value(part, fields[j][2], idx, Str(""))>>]
         IN DetailLoop(Update(profile, written), part, fields, idx + 1)

\* variant: the flag is written only when the partition has rows
CategoryBlock_flag_when_present(profile, dip_data, cat, flag, fields) ==
    LET part == filter(dip_data, "tipo_actividad_std", cat)
        flagged == IF Len(part.rows) > 0 THEN Put(profile, flag, Num(1))
                   ELSE profile
    IN DetailLoop(flagged, part, fields, 0)

\* one category block of process_deputy_profile: the presence flag, then
\* the numbered detail fields
CategoryBlock(profile, dip_data, cat, flag, fields) ==
    LET part == filter(dip_data, "tipo_actividad_std", cat)
        flagged == Put(profile, flag,
                       IF Len(part.rows) > 0 THEN Num(1) ELSE Num(0))
    IN DetailLoop(flagged, part, fields, 0)

\* variant: the flag is written under the name of another category's flag
CargoEleccionPopularBlock_shared_flag ==
    <<"cargos_electos_previos", "escolaridad",
      << <<"cargo_eleccion_popular_", "descripcion">>,
         <<"cargo_eleccion_popular_partido_", "detalle">>,
         <<"cargo_eleccion_popular_periodo_", "periodo">> >> >>

\* the block of process_cargo_eleccion_popular: <<category, flag, fields>>
CargoEleccionPopularBlock ==
    <<"cargos_electos_previos", "cargo_eleccion_popular",
      << <<"cargo_eleccion_popular_", "descripcion">>,
         <<"cargo_eleccion_popular_partido_", "detalle">>,
         <<"cargo_eleccion_popular_periodo_", "periodo">> >> >>

process_cargo_eleccion_popular(dip_data) ==
    CategoryBlock(<<>>, dip_data, CargoEleccionPopularBlock[1],
        CargoEleccionPopularBlock[2], CargoEleccionPopularBlock[3])

\* the category blocks of process_deputy_profile before and after the call
\* of process_cargo_eleccion_popular: <<category, flag, fields>>
ProfileBlocksHead ==
    << <<"escolaridad", "escolaridad",
         << <<"escolaridad_", "descripcion">>,
            <<"escolaridad_institucion_", "detalle">> >> >>,
       <<"exp_politica", "exp_politica",
         << <<"exp_politica_", "descripcion">>,
            <<"exp_politica_periodo_", "periodo">> >> >>,
       <<"exp_laboral_privada", "exp_laboral_privada",
         << <<"exp_laboral_privada_", "descripcion">> >> >>,
       <<"exp_leg_previa", "exp_leg_previa",
         << <<"exp_leg_previa_", "descripcion">>,
            <<"exp_leg_previa_periodo_", "periodo">> >> >>,
       <<"exp_apf", "exp_apf",
         << <<"exp_apf_", "descripcion">>,
            <<"exp_apf_periodo_", "periodo">> >> >>,
       <<"exp_aplocal", "exp_aplocal",
         << <<"exp_aplocal_", "descripcion">>,
            <<"exp_aplocal_periodo_", "periodo">> >> >>,
       <<"cargos_legislativos_previa", "cargos_legislativos_previa",
         << <<"cargo_legislativo_", "descripcion">>,
            <<"cargo_legislativo_periodo_", "periodo">> >> >> >>

ProfileBlocksTail ==
    << <<"exp_asociaciones", "exp_asociaciones",
         << <<"asociacion_", "descripcion">> >> >>,
       <<"exp_docente", "exp_docente",
         << <<"exp_docente_", "descripcion">>,
            <<"exp_docente_institucion_", "detalle">> >> >>,
       <<"publicaciones", "publicaciones",
         << <<"publicacion_", "descripcion">> >> >>,
       <<"exp_empresarial", "exp_empresarial",
         << <<"exp_empresarial_", "descripcion">> >> >>,
       <<"logros_deportivos", "logros_deportivos",
         << <<"logro_deportivo_", "descripcion">> >> >> >>

RECURSIVE ApplyBlocks(_, _, _)
ApplyBlocks(profile, dip_data, blocks) ==
    IF blocks = <<>> THEN profile
    ELSE ApplyBlocks(
             CategoryBlock(profile, dip_data, Head(blocks)[1],
                           Head(blocks)[2], Head(blocks)[3]),
             dip_data, Tail(blocks))

process_deputy_profile(dip_id, dip_data) ==
    LET p0 == <<<<"dip_id", Num(dip_id)>>>>
        p1 == ApplyBlocks(p0, dip_data, ProfileBlocksHead)
        p2 == Update(p1, process_cargo_eleccion_popular(dip_data))
    IN ApplyBlocks(p2, dip_data, ProfileBlocksTail)

\* df.with_columns(tipo.replace_strict(...).alias("tipo_actividad_std"))
with_tipo_actividad_std(frame) ==
    [columns |-> Append(frame.columns, "tipo_actividad_std"),
     rows |-> [i \in 1..Len(frame.rows) |->
                 frame.rows[i] @@
                 ("tipo_actividad_std" :>
                     replace_strict(TIPO_ACTIVIDAD_MAPPING,
                                    frame.rows[i]["tipo"]))]]

---------------------------------------------------------------------------
(* lxi_dataprocessing_polars.py and process_lxi_data.py                    *)
(*                                                                         *)
(* Both build the same fields; lxi_dataprocessing_polars.py selects the    *)
(* rows of a category by comparing the raw tipo with the canonical key,    *)
(* process_lxi_data.py by comparing it with the label of the sheet.        *)

actividades_mapping ==
    ("ESCOLARIDAD" :> "escolaridad") @@
    ("TRAYECTORIA POLÍTICA" :> "exp_politica") @@
    ("INICIATIVA PRIVADA" :> "exp_laboral_privada") @@
    ("EXPERIENCIA LEGISLATIVA" :> "exp_leg_previa") @@
    ("ADMINISTRACIÓN PÚBLICA FEDERAL" :> "exp_apf") @@
    ("ADMINISTRACIÓN PÚBLICA LOCAL" :> "exp_aplocal") @@
    ("CARGOS EN LEGISLATURAS LOCALES O FEDERALES" :> "cargos_legislativos_previa") @@
    ("CARGOS DE ELECCIÓN POPULAR" :> "cargos_electos_previos") @@
    ("ASOCIACIONES A LAS QUE PERTENECE" :> "exp_asociaciones") @@
    ("ACTIVIDADES DOCENTES" :> "exp_docente") @@
    ("PUBLICACIONES" :> "publicaciones") @@
    ("Actividad Empresarial" :> "exp_empresarial") @@
    ("LOGROS DEPORTIVOS MÁS DESTACADOS" :> "logros_deportivos")

\* the exception of frame[col] when col is no column of the frame, carried
\* in the place of the value the expression would have had
ColumnNotFoundError == <<"raise", "ColumnNotFoundError">>

\* variant: a column that is absent reads as the empty string
or_empty_absent_is_blank(frame, col, idx) ==
    IF col \notin Range(frame.columns) THEN Str("")
    ELSE LET value == frame.rows[idx + 1][col]
         IN IF value # Null THEN value ELSE Str("")

\* frame[col][idx] if frame[col][idx] is not None else ""
or_empty(frame, col, idx) ==
    IF col \notin Range(frame.columns) THEN ColumnNotFoundError
    ELSE LET value == frame.rows[idx + 1][col]
         IN IF value # Null THEN value ELSE Str("")

\* safe_get_value of lxi_dataprocessing_polars.py
safe_get_value_polars(frame, col, idx) == py_str(or_empty(frame, col, idx))

\* f"{a},{b}" and f"{a},{b},{c}"
RECURSIVE JoinComma(_)
JoinComma(parts) ==
    IF Len(parts) = 1 THEN parts[1][2]
    ELSE parts[1][2] \o "," \o JoinComma(Tail(parts))

\* the value of one numbered field: one source column as it is, or the
\* str() of several joined by commas
FieldValue(part, cols, idx, joined) ==
    IF joined
    THEN LET parts == [j \in 1..Len(cols) |->
                          safe_get_value_polars(part, cols[j], idx)]
         IN IF \E j \in 1..Len(parts) : parts[j] = ColumnNotFoundError
            THEN ColumnNotFoundError
            ELSE Str(JoinComma(parts))
    ELSE or_empty(part, cols[1], idx)

RECURSIVE NumberedFields(_, _, _, _, _)
NumberedFields(result, part, fields, idx, joined) ==
    IF idx >= Len(part.rows) THEN result
    ELSE LET written ==
                 [j \in 1..Len(fields) |->
                     <<FieldName(fields[j][1], idx),
                       FieldValue(part, fields[j][2], idx, joined)>>]
         IN NumberedFields(Update(result, written), part, fields,
                           idx + 1, joined)

\* a block that has a presence flag writes it before its numbered fields
FlagAndFields(dip_data, tipo, flag, fields, joined) ==
    LET part == filter(dip_data, "tipo", tipo)
        start == IF flag = "" THEN <<>>
                 ELSE <<<<flag, IF Len(part.rows) > 0 THEN Num(1)
                                ELSE Num(0)>>>>
    IN NumberedFields(start, part, fields, 0, joined)

actividad_empresarial(dip_data, tipo) ==
    FlagAndFields(dip_data, tipo, "",
        << <<"actividad_empresarial_",
             <<"detalle", "descripcion", "periodo">> >> >>, TRUE)

actividad_docente(dip_data, tipo) ==
    LET actividad_doc == filter(dip_data, "tipo", tipo)
        has_docente ==
            IF "actividad" \in Range(actividad_doc.columns)
            THEN \E i \in 1..Len(actividad_doc.rows) :
                     actividad_doc.rows[i]["actividad"] = Str("Docente")
            ELSE FALSE
    IN <<<<"actividad_docente",
           IF Len(actividad_doc.rows) > 0 /\ has_docente THEN Num(1)
           ELSE Num(0)>>>>

experiencia_apf(dip_data, tipo) ==
    FlagAndFields(dip_data, tipo, "experiencia_apf",
        << <<"detalle_exp_apf_", <<"descripcion", "detalle">> >> >>, TRUE)

experiencia_aplocal(dip_data, tipo) ==
    FlagAndFields(dip_data, tipo, "experiencia_aplocal",
        << <<"detalle_exp_aplocal_", <<"descripcion", "detalle">> >> >>, TRUE)

asociaciones(dip_data, tipo) ==
    FlagAndFields(dip_data, tipo, "asociaciones",
        << <<"asociaciones_rol_", <<"descripcion">> >>,
           <<"asociaciones_detalle_", <<"detalle">> >> >>, FALSE)

cargo_eleccion_popular(dip_data, tipo) ==
    FlagAndFields(dip_data, tipo, "cargo_eleccion_popular",
        << <<"cargo_eleccion_popular_", <<"descripcion">> >>,
           <<"cargo_eleccion_popular_partido_", <<"detalle">> >>,
           <<"cargo_eleccion_popular_periodo_", <<"periodo">> >> >>, FALSE)

experiencia_legislativa(dip_data, tipo) ==
    FlagAndFields(dip_data, tipo, "experiencia_legislativa",
        << <<"experiencia_legislativa_detalle_", <<"descripcion">> >>,
           <<"experiencia_legislativa_legislatura_", <<"detalle">> >> >>,
        FALSE)

\* variant: the block starts with a presence flag
escolaridad_with_flag(dip_data, tipo) ==
    FlagAndFields(dip_data, tipo, "escolaridad",
        << <<"escolaridad_tipo_", <<"descripcion">> >>,
           <<"escolaridad_detalle_", <<"detalle">> >>,
           <<"escolaridad_periodo_", <<"periodo">> >> >>, FALSE)

\* variant: the field names of the narrative example
escolaridad_other_names(dip_data, tipo) ==
    FlagAndFields(dip_data, tipo, "",
        << <<"escolaridad_", <<"descripcion">> >>,
           <<"escolaridad_detalle_", <<"detalle">> >>,
           <<"escolaridad_periodo_", <<"periodo">> >> >>, FALSE)

escolaridad(dip_data, tipo) ==
    FlagAndFields(dip_data, tipo, "",
        << <<"escolaridad_tipo_", <<"descripcion">> >>,
           <<"escolaridad_detalle_", <<"detalle">> >>,
           <<"escolaridad_periodo_", <<"periodo">> >> >>, FALSE)

experiencia_legislativa_previa(dip_data, tipo) ==
    FlagAndFields(dip_data, tipo, "",
        << <<"exp_leg_previa_", <<"descripcion">> >>,
           <<"exp_leg_previa_legislatura_", <<"detalle">> >>,
           <<"exp_leg_previa_yr_", <<"periodo">> >> >>, FALSE)

empleo_privado(dip_data, tipo) ==
    FlagAndFields(dip_data, tipo, "empleo_privado",
        << <<"empleo_privado_", <<"descripcion">> >>,
           <<"empleo_privado_empresa_", <<"detalle">> >>,
           <<"empleo_privado_yr_", <<"periodo">> >> >>, FALSE)

deportista(dip_data, tipo) ==
    FlagAndFields(dip_data, tipo, "deportista_altorend", <<>>, FALSE)

\* lxi_dataprocessing_polars.py writes the flag experiencia_pol,
\* process_lxi_data.py writes no flag for this block
experiencia_politica(dip_data, tipo, flag) ==
    FlagAndFields(dip_data, tipo, flag,
        << <<"exp_pol_", <<"descripcion">> >>,
           <<"exp_pol_org_", <<"detalle">> >> >>, FALSE)

\* the functions of lxi_dataprocessing_polars.py: the tipo they compare
\* with is the canonical key
process_actividad_empresarial(dip_data) ==
    actividad_empresarial(dip_data, "exp_empresarial")
process_actividad_docente(dip_data) ==
    actividad_docente(dip_data, "exp_docente")
process_experiencia_apf(dip_data) ==
    experiencia_apf(dip_data, "exp_apf")
process_experiencia_aplocal(dip_data) ==
    experiencia_aplocal(dip_data, "exp_aplocal")
process_asociaciones(dip_data) ==
    asociaciones(dip_data, "exp_asociaciones")
process_cargo_eleccion_popular_polars(dip_data) ==
    cargo_eleccion_popular(dip_data, "cargos_electos_previos")
process_experiencia_legislativa(dip_data) ==
    experiencia_legislativa(dip_data, "cargos_legislativos_previa")
process_escolaridad(dip_data) ==
    escolaridad(dip_data, "escolaridad")
process_experiencia_legislativa_previa(dip_data) ==
    experiencia_legislativa_previa(dip_data, "exp_leg_previa")
process_empleo_privado(dip_data) ==
    empleo_privado(dip_data, "exp_laboral_privada")
process_deportista(dip_data) ==
    deportista(dip_data, "logros_deportivos")
process_experiencia_politica(dip_data) ==
    experiencia_politica(dip_data, "exp_politica", "experiencia_pol")

RECURSIVE UpdateAll(_, _)
UpdateAll(result, dicts) ==
    IF dicts = <<>> THEN result
    ELSE UpdateAll(Update(result, Head(dicts)), Tail(dicts))

process_deputy_profile_polars(dip_id, dip_data) ==
    UpdateAll(<<<<"dip_id", Num(dip_id)>>>>,
        << process_actividad_empresarial(dip_data),
           process_actividad_docente(dip_data),
           process_experiencia_apf(dip_data),
           process_experiencia_aplocal(dip_data),
           process_asociaciones(dip_data),
           process_cargo_eleccion_popular_polars(dip_data),
           process_experiencia_legislativa(dip_data),
           process_escolaridad(dip_data),
           process_experiencia_legislativa_previa(dip_data),
           process_empleo_privado(dip_data),
           process_deportista(dip_data),
           process_experiencia_politica(dip_data) >>)

\* the body of the loop of process_lxi_data.py: the same blocks, each
\* selecting its rows by the label of the sheet
sheet3_results_entry(dip_id, dip_data) ==
    UpdateAll(<<<<"dip_id", Num(dip_id)>>>>,
        << actividad_empresarial(dip_data, "Actividad Empresarial"),
           actividad_docente(dip_data, "ACTIVIDADES DOCENTES"),
           experiencia_apf(dip_data, "ADMINISTRACIÓN PÚBLICA FEDERAL"),
           experiencia_aplocal(dip_data, "ADMINISTRACIÓN PÚBLICA LOCAL"),
           asociaciones(dip_data, "ASOCIACIONES A LAS QUE PERTENECE"),
           cargo_eleccion_popular(dip_data, "CARGOS DE ELECCIÓN POPULAR"),
           experiencia_legislativa(dip_data,
               "CARGOS EN LEGISLATURAS LOCALES O FEDERALES"),
           escolaridad(dip_data, "ESCOLARIDAD"),
           experiencia_legislativa_previa(dip_data,
               "EXPERIENCIA LEGISLATIVA"),
           empleo_privado(dip_data, "INICIATIVA PRIVADA"),
           deportista(dip_data, "LOGROS DEPORTIVOS MÁS DESTACADOS"),
           experiencia_politica(dip_data, "TRAYECTORIA POLÍTICA", "") >>)

---------------------------------------------------------------------------
(* Inputs: bounded Sheet3 tables *)
Dips == 1..MaxDip

E1 == [descripcion |-> Str("Licenciatura"), detalle |-> Str("UNAM"),
       periodo |-> Str("2000")]
E2 == [descripcion |-> Str("Maestria"), detalle |-> Str("IPN"),
       periodo |-> Str("2005")]
E3 == [descripcion |-> Null, detalle |-> Str("A"), periodo |-> Str("2010")]

Sheet3Columns == <<"dip_id", "tipo", "descripcion", "detalle", "periodo">>

Event(dip_id, tipo, e) ==
    [dip_id |-> dip_id, tipo |-> tipo, descripcion |-> e.descripcion,
     detalle |-> e.detalle, periodo |-> e.periodo]

\* sequences over S of length at most n
RECURSIVE SeqsUpTo(_, _)
SeqsUpTo(S, n) ==
    IF n = 0 THEN {<<>>}
    ELSE LET shorter == SeqsUpTo(S, n - 1)
         IN shorter \cup {Append(s, x) : s \in {t \in shorter : Len(t) = n - 1},
                                         x \in S}

LegacyLabels(canonical) ==
    IF canonical
    THEN [apf |-> "exp_apf", doc |-> "exp_docente",
          emp |-> "exp_empresarial", esc |-> "escolaridad"]
    ELSE [apf |-> "ADMINISTRACIÓN PÚBLICA FEDERAL",
          doc |-> "ACTIVIDADES DOCENTES",
          emp |-> "Actividad Empresarial", esc |-> "ESCOLARIDAD"]

\* event rows of four categories under the labels of the sheet
\* (canonical = FALSE) or under the canonical keys (canonical = TRUE)
LegacyEvents(canonical, with_actividad) ==
    LET L == LegacyLabels(canonical)
        plain == {Event(d, L.apf, E1) : d \in Dips}
                 \cup {Event(d, L.emp, E3) : d \in Dips}
                 \cup {Event(d, L.esc, e) : d \in Dips, e \in {E1, E2}}
    IN IF with_actividad
       THEN {r @@ ("actividad" :> Null) : r \in plain}
            \cup {Event(d, L.doc, E1) @@ ("actividad" :> a) :
                     d \in Dips, a \in {Str("Docente"), Str("Alumno")}}
       ELSE plain \cup {Event(d, L.doc, E1) : d \in Dips}

\* the two older programs are run on shorter tables
LegacyRows == MaxRows - 1

LegacySheets(events, with_actividad) ==
    {[columns |-> IF with_actividad THEN Append(Sheet3Columns, "actividad")
                  ELSE Sheet3Columns,
      rows |-> r] : r \in SeqsUpTo(events, LegacyRows)}

NoFrame == EmptyFrame(<<>>)

---------------------------------------------------------------------------
(* lxi_script.py: process_sheet3 *)

\* the empty-input return, else the canonical column and the member list
ScriptSheet3Begin ==
    /\ prog = "lxi_script"
    /\ pc = "process_sheet3"
    /\ IF is_empty(sheet3)
       THEN /\ df_sheet3_processed' = EmptyFrame(<<"dip_id">>)
            /\ pc' = "merge"
            /\ UNCHANGED <<df, ids, results>>
       ELSE /\ df' = with_tipo_actividad_std(sheet3)
            /\ \E u \in unique_any_order(column(sheet3, "dip_id")) :
                  ids' = sort(u)
            /\ results' = <<>>
            /\ pc' = "members"
            /\ UNCHANGED df_sheet3_processed
    /\ UNCHANGED file_vars
    /\ UNCHANGED <<prog, df_sheet1_processed, df_sheet2_processed, sheet3,
                   df_final>>

\* variant: the record is built from the rows of every member
ScriptSheet3Member_whole_frame ==
    /\ prog = "lxi_script"
    /\ pc = "members"
    /\ ids # <<>>
    /\ results' = Append(results, process_deputy_profile(Head(ids), df))
    /\ ids' = Tail(ids)
    /\ UNCHANGED file_vars
    /\ UNCHANGED <<prog, df_sheet1_processed, df_sheet2_processed, sheet3, pc,
                   df, df_sheet3_processed, df_final>>

\* one iteration of the loop over the members
ScriptSheet3Member ==
    /\ prog = "lxi_script"
    /\ pc = "members"
    /\ ids # <<>>
    /\ LET dip_id == Head(ids)
           dip_data == filter(df, "dip_id", dip_id)
       IN results' = Append(results, process_deputy_profile(dip_id, dip_data))
    /\ ids' = Tail(ids)
    /\ UNCHANGED file_vars
    /\ UNCHANGED <<prog, df_sheet1_processed, df_sheet2_processed, sheet3, pc,
                   df, df_sheet3_processed, df_final>>

\* the loop is over: the table of the flat records
ScriptSheet3Return ==
    /\ prog = "lxi_script"
    /\ pc = "members"
    /\ ids = <<>>
    /\ df_sheet3_processed' =
           IF results # <<>> THEN DataFrame(results)
           ELSE EmptyFrame(<<"dip_id">>)
    /\ pc' = "merge"
    /\ UNCHANGED file_vars
    /\ UNCHANGED <<prog, df_sheet1_processed, df_sheet2_processed, sheet3, df,
                   ids, results, df_final>>

---------------------------------------------------------------------------
(* lxi_dataprocessing_polars.py: process_sheet3 *)

\* the member list of the for statement; the frame is read as loaded
PolarsSheet3Begin ==
    /\ prog = "lxi_dataprocessing_polars"
    /\ pc = "process_sheet3"
    /\ df' = sheet3
    /\ \E u \in unique_any_order(column(sheet3, "dip_id")) : ids' = sort(u)
    /\ results' = <<>>
    /\ pc' = "members"
    /\ UNCHANGED file_vars
    /\ UNCHANGED <<prog, df_sheet1_processed, df_sheet2_processed, sheet3,
                   df_sheet3_processed, df_final>>

\* an exception raised while a record is built leaves the record unbuilt
Raised(record) ==
    \E i \in 1..Len(record) : record[i][2] = ColumnNotFoundError

PolarsSheet3Member ==
    /\ prog = "lxi_dataprocessing_polars"
    /\ pc = "members"
    /\ ids # <<>>
    /\ LET dip_id == Head(ids)
           dip_data == filter(df, "dip_id", dip_id)
           record == process_deputy_profile_polars(dip_id, dip_data)
       IN /\ ~Raised(record)
          /\ results' = Append(results, record)
    /\ ids' = Tail(ids)
    /\ UNCHANGED file_vars
    /\ UNCHANGED <<prog, df_sheet1_processed, df_sheet2_processed, sheet3, pc,
                   df, df_sheet3_processed, df_final>>

\* the exception leaves process_sheet3: no table is returned
PolarsSheet3Raise ==
    /\ prog = "lxi_dataprocessing_polars"
    /\ pc = "members"
    /\ ids # <<>>
    /\ LET dip_id == Head(ids)
           dip_data == filter(df, "dip_id", dip_id)
       IN Raised(process_deputy_profile_polars(dip_id, dip_data))
    /\ pc' = "error"
    /\ UNCHANGED file_vars
    /\ UNCHANGED <<prog, df_sheet1_processed, df_sheet2_processed, sheet3,
                   df, ids, results, df_sheet3_processed, df_final>>

PolarsSheet3Return ==
    /\ prog = "lxi_dataprocessing_polars"
    /\ pc = "members"
    /\ ids = <<>>
    /\ df_sheet3_processed' =
           IF results # <<>> THEN DataFrame(results) ELSE NoFrame
    /\ pc' = "merge"
    /\ UNCHANGED file_vars
    /\ UNCHANGED <<prog, df_sheet1_processed, df_sheet2_processed, sheet3, df,
                   ids, results, df_final>>

---------------------------------------------------------------------------
(* process_lxi_data.py: the Sheet3 loop *)

\* df_sheet3['dip_id'].unique(): order of first appearance, not sorted
PandasSheet3Begin ==
    /\ prog = "process_lxi_data"
    /\ pc = "process_sheet3"
    /\ df' = sheet3
    /\ ids' = unique(column(sheet3, "dip_id"))
    /\ results' = <<>>
    /\ pc' = "members"
    /\ UNCHANGED file_vars
    /\ UNCHANGED <<prog, df_sheet1_processed, df_sheet2_processed, sheet3,
                   df_sheet3_processed, df_final>>

PandasSheet3Member ==
    /\ prog = "process_lxi_data"
    /\ pc = "members"
    /\ ids # <<>>
    /\ LET dip_id == Head(ids)
           dip_data == filter(df, "dip_id", dip_id)
       IN results' = Append(results, sheet3_results_entry(dip_id, dip_data))
    /\ ids' = Tail(ids)
    /\ UNCHANGED file_vars
    /\ UNCHANGED <<prog, df_sheet1_processed, df_sheet2_processed, sheet3, pc,
                   df, df_sheet3_processed, df_final>>

\* pd.DataFrame.from_dict(sheet3_results, orient='index')
PandasSheet3Return ==
    /\ prog = "process_lxi_data"
    /\ pc = "members"
    /\ ids = <<>>
    /\ df_sheet3_processed' = from_dict(results)
    /\ pc' = "merge"
    /\ UNCHANGED file_vars
    /\ UNCHANGED <<prog, df_sheet1_processed, df_sheet2_processed, sheet3, df,
                   ids, results, df_final>>

---------------------------------------------------------------------------
(* One run of process_sheet3 *)

\* the event rows offered to lxi_script.py: registry labels with and
\* without accent, a label outside the registry, a label spelled like a
\* key; the two older programs get the rows of LegacyEvents
Init ==
    /\ prog \in {"lxi_script", "lxi_dataprocessing_polars", "process_lxi_data"}
    /\ sheet3 \in
           IF prog = "lxi_script"
           THEN {[columns |-> Sheet3Columns, rows |-> r] :
                    r \in SeqsUpTo(
                        {Event(d, "ESCOLARIDAD", e) : d \in Dips, e \in {E1, E2}}
                        \cup {Event(d, "ADMINISTRACIÓN PÚBLICA FEDERAL", E1) :
                                 d \in Dips}
                        \cup {Event(d, "ADMINISTRACION PUBLICA FEDERAL", E3) :
                                 d \in Dips}
                        \cup {Event(d, "OTRO", E1) : d \in Dips}
                        \cup {Event(d, "escolaridad", E2) : d \in Dips},
                        MaxRows)}
           ELSE UNION {LegacySheets(LegacyEvents(canonical, a), a) :
                          a \in BOOLEAN,
                          canonical \in IF prog = "lxi_dataprocessing_polars"
                                        THEN BOOLEAN ELSE {FALSE}}
    /\ df_sheet1_processed = NoFrame
    /\ df_sheet2_processed = NoFrame
    /\ pc = "process_sheet3"
    /\ df = NoFrame
    /\ ids = <<>>
    /\ results = <<>>
    /\ df_sheet3_processed = NoFrame
    /\ NoFilesTouched
    /\ df_final = NoFrame

Next ==
    \/ ScriptSheet3Begin
    \/ ScriptSheet3Member
    \/ ScriptSheet3Return
    \/ PolarsSheet3Begin
    \/ PolarsSheet3Member
    \/ PolarsSheet3Return
    \/ PandasSheet3Begin
    \/ PandasSheet3Member
    \/ PandasSheet3Return

Spec == Init /\ [][Next]_vars

---------------------------------------------------------------------------
(* merge_dataframes *)

RECURSIVE Flatten(_)
Flatten(ss) == IF ss = <<>> THEN <<>> ELSE Head(ss) \o Flatten(Tail(ss))

\* variant: a left row without a matching right row is left out
join_left_drops_unmatched(left, right) ==
    LET added == SelectSeq(right.columns, LAMBDA c : c # "dip_id")
        named(c) == IF c \in Range(left.columns) THEN c \o "_right" ELSE c
        extend(l, r) ==
            [c \in Range(left.columns) \cup {named(a) : a \in Range(added)}
                |-> IF c \in Range(left.columns) THEN l[c]
                    ELSE r[CHOOSE a \in Range(added) : named(a) = c]]
        rowsOf(l) ==
            LET matches == SelectSeq(right.rows,
                                     LAMBDA r : r["dip_id"] = l["dip_id"])
            IN [j \in 1..Len(matches) |-> extend(l, matches[j])]
    IN [columns |-> left.columns \o [j \in 1..Len(added) |-> named(added[j])],
        rows |-> Flatten([i \in 1..Len(left.rows) |-> rowsOf(left.rows[i])])]

\* left.join(right, on="dip_id", how="left"): every left row in its order,
\* once per matching right row, the right columns null without a match
join_left(left, right) ==
    LET added == SelectSeq(right.columns, LAMBDA c : c # "dip_id")
        named(c) == IF c \in Range(left.columns) THEN c \o "_right" ELSE c
        extend(l, matched, r) ==
            [c \in Range(left.columns) \cup {named(a) : a \in Range(added)}
                |-> IF c \in Range(left.columns) THEN l[c]
                    ELSE LET a == CHOOSE a \in Range(added) : named(a) = c
                         IN IF matched THEN r[a] ELSE Null]
        rowsOf(l) ==
            LET matches == SelectSeq(right.rows,
                                     LAMBDA r : r["dip_id"] = l["dip_id"])
            IN IF matches = <<>> THEN <<extend(l, FALSE, l)>>
               ELSE [j \in 1..Len(matches) |-> extend(l, TRUE, matches[j])]
    IN [columns |-> left.columns \o [j \in 1..Len(added) |-> named(added[j])],
        rows |-> Flatten([i \in 1..Len(left.rows) |-> rowsOf(left.rows[i])])]

\* insertion of a row into rows ascending by dip_id, after its equals
RECURSIVE InsertRow(_, _)
InsertRow(rows, x) ==
    IF rows = <<>> THEN <<x>>
    ELSE IF x["dip_id"][2] < Head(rows)["dip_id"][2] THEN <<x>> \o rows
    ELSE <<Head(rows)>> \o InsertRow(Tail(rows), x)

RECURSIVE SortRows(_)
SortRows(rows) ==
    IF rows = <<>> THEN <<>>
    ELSE InsertRow(SortRows(SubSeq(rows, 1, Len(rows) - 1)), rows[Len(rows)])

\* merge_dataframes of lxi_script.py
merge_dataframes(df1, df2, df3) ==
    LET with2 == IF ~is_empty(df2) /\ "dip_id" \in Range(df2.columns)
                 THEN join_left(df1, df2) ELSE df1
    IN IF ~is_empty(df3) /\ "dip_id" \in Range(df3.columns)
       THEN join_left(with2, df3) ELSE with2

\* merge_dataframes of lxi_dataprocessing_polars.py, which ends with
\* df_final.sort("dip_id")
merge_dataframes_polars(df1, df2, df3) ==
    LET with2 == IF ~is_empty(df2) THEN join_left(df1, df2) ELSE df1
        with3 == IF ~is_empty(df3) THEN join_left(with2, df3) ELSE with2
    IN [columns |-> with3.columns, rows |-> SortRows(with3.rows)]

ScriptMerge ==
    /\ prog = "lxi_script"
    /\ pc = "merge"
    /\ df_final' = merge_dataframes(df_sheet1_processed, df_sheet2_processed,
                                    df_sheet3_processed)
    /\ pc' = "reorder"
    /\ UNCHANGED file_vars
    /\ UNCHANGED <<prog, df_sheet1_processed, df_sheet2_processed, sheet3,
                   df, ids, results, df_sheet3_processed>>

PolarsMerge ==
    /\ prog = "lxi_dataprocessing_polars"
    /\ pc = "merge"
    /\ df_final' = merge_dataframes_polars(df_sheet1_processed,
                       df_sheet2_processed, df_sheet3_processed)
    /\ pc' = "reorder"
    /\ UNCHANGED file_vars
    /\ UNCHANGED <<prog, df_sheet1_processed, df_sheet2_processed, sheet3,
                   df, ids, results, df_sheet3_processed>>

---------------------------------------------------------------------------
(* One run of run_pipeline up to the merge *)

\* the sequences that list every element of S once
RECURSIVE Perms(_)
Perms(S) ==
    IF S = {} THEN {<<>>}
    ELSE UNION {{Append(q, x) : q \in Perms(S \ {x})} : x \in S}

\* Sheet1 has one row per deputy, in any order
Sheet1Tables ==
    {[columns |-> <<"dip_id">>,
      rows |-> [i \in 1..Len(q) |-> [dip_id |-> Num(q[i])]]] :
        q \in UNION {Perms(S) : S \in SUBSET Dips}}

---------------------------------------------------------------------------
(* process_sheet2 *)

\* lxi_script.py
TIPO_COMITE_MAPPING ==
    ("ORDINARIA" :> "ordinaria") @@
    ("COMITE" :> "comite") @@
    ("COMITÉ" :> "comite") @@
    ("ESPECIAL" :> "especial") @@
    ("BICAMARAL" :> "bicamaral")

\* lxi_dataprocessing_polars.py
tipo_comite_mapping ==
    ("ORDINARIA" :> "ordinaria") @@
    ("COMITÉ" :> "comite") @@
    ("ESPECIAL" :> "especial") @@
    ("BICAMARAL" :> "bicamaral") @@
    ("" :> "")

\* normalizar_texto of lxi_script.py on the committee names of the sheets
\* offered: trimmed, lower case, punctuation and accents removed
normalizar_texto(texto) ==
    CASE texto = "Salud" -> "salud"
      [] texto = "Energía" -> "energia"
      [] texto = "." -> ""

\* normalizar_expresionespl of lxi_dataprocessing_polars.py on the same
\* names: accents and what is not a letter removed, the case kept
normalizar_expresionespl(texto) ==
    CASE texto = "Salud" -> "Salud"
      [] texto = "Energía" -> "Energia"
      [] texto = "." -> ""

\* the loop over the deputies of Sheet2, ascending: for each of the four
\* types the count of the deputy's rows of the type and one column per
\* committee with a name that is not empty; total_comites is the sum of
\* the counts, the second key of the row in lxi_script.py (total_first)
\* and the last in lxi_dataprocessing_polars.py. std holds, per row of the
\* sheet, the deputy, the standard type and the normalised name
sheet2_rows(std, total_first) ==
    LET tipos == <<"ordinaria", "comite", "especial", "bicamaral">>
        comites(dip_id, tipo) ==
            SelectSeq(std, LAMBDA r : r[1] = dip_id /\ r[2] = tipo)
        named(dip_id, tipo) ==
            LET comites_list == comites(dip_id, tipo)
            IN SelectSeq([idx \in 1..Len(comites_list) |->
                             <<tipo \o "_" \o ToString(idx),
                               Str(comites_list[idx][3])>>],
                         LAMBDA kv : kv[2] # Str(""))
        block(dip_id, tipo) ==
            <<<<"num_" \o tipo, Num(Len(comites(dip_id, tipo)))>>>>
            \o named(dip_id, tipo)
        total(dip_id) ==
            <<<<"total_comites",
                Num(Len(SelectSeq(std, LAMBDA r :
                        r[1] = dip_id /\ r[2] \in Range(tipos))))>>>>
        row(dip_id) ==
            <<<<"dip_id", Num(dip_id)>>>>
            \o (IF total_first THEN total(dip_id) ELSE <<>>)
            \o Flatten([k \in 1..Len(tipos) |-> block(dip_id, tipos[k])])
            \o (IF total_first THEN <<>> ELSE total(dip_id))
        deputies == sort(unique([i \in 1..Len(std) |-> std[i][1]]))
    IN [k \in 1..Len(deputies) |-> row(deputies[k])]

\* process_sheet2 of lxi_script.py
process_sheet2(frame) ==
    IF is_empty(frame) THEN EmptyFrame(<<"dip_id">>)
    ELSE DataFrame(sheet2_rows(
             [i \in 1..Len(frame.rows) |->
                 <<frame.rows[i]["dip_id"],
                   replace_strict(TIPO_COMITE_MAPPING,
                                  frame.rows[i]["tipo_comite"]),
                   normalizar_texto(frame.rows[i]["nombre_comite"])>>],
             TRUE))

\* process_sheet2 of lxi_dataprocessing_polars.py
process_sheet2_polars(frame) ==
    DataFrame(sheet2_rows(
        [i \in 1..Len(frame.rows) |->
            <<frame.rows[i]["dip_id"],
              replace_strict(tipo_comite_mapping,
                             frame.rows[i]["tipo_comite"]),
              normalizar_expresionespl(frame.rows[i]["nombre_comite"])>>],
        FALSE))

---------------------------------------------------------------------------
(* One run of run_pipeline up to the merge, continued *)

\* Sheet2 as loaded: a committee of a listed type, one whose name is
\* punctuation only, one of a type outside the mappings
Sheet2Sheets ==
    {[columns |-> <<"dip_id", "nombre_comite", "tipo_comite">>,
      rows |-> [i \in 1..Len(q) |->
                  [dip_id |-> q[i][1], nombre_comite |-> q[i][2],
                   tipo_comite |-> q[i][3]]]] :
        q \in SeqsUpTo({<<d, c[1], c[2]>> :
                           d \in Dips,
                           c \in {<<"Energía", "ORDINARIA">>,
                                  <<".", "COMITE">>,
                                  <<"Salud", "OTRA">>}},
                       MaxCommittees)}

\* the tables process_sheet2 returns on them
Sheet2Tables(program) ==
    {IF program = "lxi_script" THEN process_sheet2(sheet)
     ELSE process_sheet2_polars(sheet) : sheet \in Sheet2Sheets}

PipelineSheets ==
    {[columns |-> Sheet3Columns, rows |-> r] :
        r \in SeqsUpTo({Event(d, "ESCOLARIDAD", E1) : d \in Dips}
                       \cup {Event(d, "escolaridad", E2) : d \in Dips},
                       LegacyRows)}

InitPipeline ==
    /\ prog \in {"lxi_script", "lxi_dataprocessing_polars"}
    /\ df_sheet1_processed \in Sheet1Tables
    /\ df_sheet2_processed \in Sheet2Tables(prog)
    /\ sheet3 \in PipelineSheets
    /\ pc = "process_sheet3"
    /\ df = NoFrame
    /\ ids = <<>>
    /\ results = <<>>
    /\ df_sheet3_processed = NoFrame
    /\ NoFilesTouched
    /\ df_final = NoFrame

NextPipeline ==
    \/ ScriptSheet3Begin
    \/ ScriptSheet3Member
    \/ ScriptSheet3Return
    \/ ScriptMerge
    \/ PolarsSheet3Begin
    \/ PolarsSheet3Member
    \/ PolarsSheet3Return
    \/ PolarsMerge

SpecPipeline == InitPipeline /\ [][NextPipeline]_vars

---------------------------------------------------------------------------
(* process_sheet3 of lxi_script.py on the Sheet3 of a whole chamber *)

\* one escolaridad row for each of the members 1..n, then a second
\* escolaridad row for member m
ChamberSheet(n, m) ==
    [columns |-> Sheet3Columns,
     rows |-> [i \in 1..n |-> Event(i, "ESCOLARIDAD", E1)]
              \o <<Event(m, "ESCOLARIDAD", E2)>>]

InitChamber ==
    /\ prog = "lxi_script"
    /\ \E n \in {infer_schema_length, infer_schema_length + 1} :
          \E m \in {1, n} : sheet3 = ChamberSheet(n, m)
    /\ df_sheet1_processed = NoFrame
    /\ df_sheet2_processed = NoFrame
    /\ pc = "process_sheet3"
    /\ df = NoFrame
    /\ ids = <<>>
    /\ results = <<>>
    /\ df_sheet3_processed = NoFrame
    /\ NoFilesTouched
    /\ df_final = NoFrame

NextChamber ==
    \/ ScriptSheet3Begin
    \/ ScriptSheet3Member
    \/ ScriptSheet3Return

SpecChamber == InitChamber /\ [][NextChamber]_vars

---------------------------------------------------------------------------
(* process_sheet3 on an event table that lacks a field *)

\* Sheet3 without the column missing ("" = the full schema): events of two
\* categories, one of them with a null descripcion
SchemaSheets(missing, canonical) ==
    LET L == LegacyLabels(canonical)
        events == {Event(d, L.esc, e) : d \in Dips, e \in {E1, E3}}
                  \cup {Event(d, L.apf, E1) : d \in Dips}
        kept == {j \in 1..Len(Sheet3Columns) : Sheet3Columns[j] # missing}
    IN {[columns |-> [k \in 1..Cardinality(kept) |->
                         Sheet3Columns[Nth(kept, k)]],
         rows |-> [i \in 1..Len(r) |->
                     [k \in DOMAIN r[i] \ {missing} |-> r[i][k]]]] :
           r \in SeqsUpTo(events, LegacyRows)}

InitSchema ==
    /\ \E missing \in {"", "descripcion", "detalle", "periodo"} :
          \/ /\ prog = "lxi_script"
             /\ sheet3 \in SchemaSheets(missing, FALSE)
          \/ /\ prog = "lxi_dataprocessing_polars"
             /\ sheet3 \in SchemaSheets(missing, TRUE)
    /\ df_sheet1_processed = NoFrame
    /\ df_sheet2_processed = NoFrame
    /\ pc = "process_sheet3"
    /\ df = NoFrame
    /\ ids = <<>>
    /\ results = <<>>
    /\ df_sheet3_processed = NoFrame
    /\ NoFilesTouched
    /\ df_final = NoFrame

NextSchema ==
    \/ ScriptSheet3Begin
    \/ ScriptSheet3Member
    \/ ScriptSheet3Return
    \/ PolarsSheet3Begin
    \/ PolarsSheet3Member
    \/ PolarsSheet3Raise
    \/ PolarsSheet3Return

SpecSchema == InitSchema /\ [][NextSchema]_vars

---------------------------------------------------------------------------
(* Column order of the final table                                         *)
(*                                                                         *)
(* Where names are compared, split or tested for a prefix they are spelled *)
(* character by character: "x_10" is <<"x", "_", "1", "0">>.               *)

\* the characters of the column names in the order of their code points
Alphabet ==
    <<"0", "1", "2", "3", "4", "5", "6", "7", "8", "9", "U", "_",
      "a", "b", "c", "d", "e", "f", "g", "h", "i", "j", "k", "l", "m",
      "n", "o", "p", "q", "r", "s", "t", "u", "v", "w", "x", "y", "z">>

ord(c) == CHOOSE i \in 1..Len(Alphabet) : Alphabet[i] = c

DigitChars == {Alphabet[i] : i \in 1..10}

\* str.isdigit(): not empty and nothing but digits
isdigit(part) == part # <<>> /\ \A i \in 1..Len(part) : part[i] \in DigitChars

\* int(part) of a run of digits
RECURSIVE int(_)
int(part) ==
    IF part = <<>> THEN 0
    ELSE 10 * int(SubSeq(part, 1, Len(part) - 1)) + (ord(part[Len(part)]) - 1)

\* the decimal digits of n, as f"{n}" writes them
RECURSIVE Digits(_)
Digits(n) ==
    IF n < 10 THEN <<Alphabet[n + 1]>>
    ELSE Digits(n \div 10) \o <<Alphabet[(n % 10) + 1]>>

\* f"{prefix}{i}"
ColumnName(prefix, i) == prefix \o Digits(i)

\* str.startswith
startswith(name, prefix) ==
    Len(prefix) <= Len(name) /\ SubSeq(name, 1, Len(prefix)) = prefix

\* a < b between two texts: the first differing character decides, a proper
\* prefix is smaller
TextLess(a, b) ==
    \E i \in 1..(Len(b)) :
        /\ \A j \in 1..(i - 1) : j <= Len(a) /\ a[j] = b[j]
        /\ \/ i = Len(a) + 1
           \/ i <= Len(a) /\ ord(a[i]) < ord(b[i])

\* re.split(r"(\d+)", col_name): the text before the first run of digits,
\* then run of digits and text in turn; a name that ends in a digit ends
\* with an empty text
RECURSIVE SplitRuns(_, _, _)
SplitRuns(chars, parts, in_digits) ==
    IF chars = <<>>
    THEN IF in_digits THEN Append(parts, <<>>) ELSE parts
    ELSE LET c == Head(chars)
             grown == [parts EXCEPT ![Len(parts)] = Append(@, c)]
         IN IF (c \in DigitChars) = in_digits
            THEN SplitRuns(Tail(chars), grown, in_digits)
            ELSE SplitRuns(Tail(chars), Append(parts, <<c>>), ~in_digits)

\* lxi_dataprocessing_polars.py: natural_sort_key calls re.split and the
\* module does not import re, so every call raises NameError
NameError == <<"raise", "NameError">>

natural_sort_key_polars(col_name) == NameError

\* process_lxi_data.py, which imports re inside the function:
\* [int(part) if part.isdigit() else part for part in parts]
natural_sort_key(col_name) ==
    LET parts == SplitRuns(col_name, <<(<<>>)>>, FALSE)
    IN [i \in 1..Len(parts) |->
           IF isdigit(parts[i]) THEN Num(int(parts[i])) ELSE Str(parts[i])]

\* k < l between two lists: the first place where they differ decides, a
\* proper prefix is smaller. Two elements compare as numbers by value and
\* as texts by TextLess (re.split puts text at the odd places and digits
\* at the even ones, so the elements at one place are of one kind)
KeyLess(k, l) ==
    LET PartLess(x, y) ==
            IF x[1] = "int" /\ y[1] = "int" THEN x[2] < y[2]
            ELSE IF x[1] = "str" /\ y[1] = "str" THEN TextLess(x[2], y[2])
            ELSE FALSE
    IN \E i \in 1..Len(l) :
           /\ \A j \in 1..(i - 1) : j <= Len(k) /\ k[j] = l[j]
           /\ \/ i = Len(k) + 1
              \/ i <= Len(k) /\ k[i] # l[i] /\ PartLess(k[i], l[i])

\* list.sort(key=natural_sort_key): ascending by key, equal keys keep
\* their order
RECURSIVE insert_natural(_, _)
insert_natural(names, x) ==
    IF names = <<>> THEN <<x>>
    ELSE IF KeyLess(natural_sort_key(x), natural_sort_key(Head(names)))
         THEN <<x>> \o names
         ELSE <<Head(names)>> \o insert_natural(Tail(names), x)

RECURSIVE sort_natural(_)
sort_natural(names) ==
    IF names = <<>> THEN <<>>
    ELSE insert_natural(sort_natural(SubSeq(names, 1, Len(names) - 1)),
                        names[Len(names)])

\* sorted(names): ascending as texts
RECURSIVE insert_sorted(_, _)
insert_sorted(names, x) ==
    IF names = <<>> THEN <<x>>
    ELSE IF TextLess(x, Head(names)) THEN <<x>> \o names
         ELSE <<Head(names)>> \o insert_sorted(Tail(names), x)

RECURSIVE sorted(_)
sorted(names) ==
    IF names = <<>> THEN <<>>
    ELSE insert_sorted(sorted(SubSeq(names, 1, Len(names) - 1)),
                       names[Len(names)])

\* df.select(columns): the columns in the order asked for
select(frame, cols) ==
    [columns |-> cols,
     rows |-> [i \in 1..Len(frame.rows) |->
                 [c \in Range(cols) |-> frame.rows[i][c]]]]

\* lxi_script.py
priority_cols ==
    <<<<"d", "i", "p", "_", "i", "d">>,
      <<"n", "o", "m", "b", "r", "e", "_", "c", "o", "m", "p", "l", "e", "t", "o">>,
      <<"p", "a", "r", "t", "i", "d", "o", "_", "d", "i", "p", "u", "t", "a", "d", "o">>,
      <<"t", "i", "p", "o", "_", "e", "l", "e", "c", "c", "i", "o", "n">>,
      <<"e", "n", "t", "i", "d", "a", "d">>,
      <<"d", "i", "s", "t", "r", "i", "t", "o">>,
      <<"c", "a", "b", "e", "c", "e", "r", "a">>,
      <<"c", "i", "r", "c", "u", "n", "s", "c", "r", "i", "p", "c", "i", "o", "n">>,
      <<"f", "e", "c", "h", "a", "_", "n", "a", "c", "i", "m", "i", "e", "n", "t", "o">>,
      <<"s", "u", "p", "l", "e", "n", "t", "e">>,
      <<"l", "e", "g", "i", "s", "l", "a", "t", "u", "r", "a", "_", "a", "c", "t", "i", "v", "o">>,
      <<"t", "o", "t", "a", "l", "_", "c", "o", "m", "i", "t", "e", "s">>>>

\* variant: the remaining columns keep the order of the frame
reorder_columns_unsorted(frame) ==
    LET existing_priority ==
            SelectSeq(priority_cols, LAMBDA c : c \in Range(frame.columns))
        remaining_cols ==
            SelectSeq(frame.columns,
                      LAMBDA c : c \notin Range(existing_priority))
    IN select(frame, existing_priority \o remaining_cols)

reorder_columns(frame) ==
    LET existing_priority ==
            SelectSeq(priority_cols, LAMBDA c : c \in Range(frame.columns))
        remaining_cols ==
            sorted(SelectSeq(frame.columns,
                             LAMBDA c : c \notin Range(existing_priority)))
        final_order == existing_priority \o remaining_cols
    IN select(frame, final_order)

\* multiarchivo_procesamiento_congreso.py
priority_cols_multiarchivo ==
    <<<<"d", "i", "p", "_", "i", "d">>,
      <<"n", "o", "m", "b", "r", "e", "_", "c", "o", "m", "p", "l", "e", "t", "o">>,
      <<"p", "a", "r", "t", "i", "d", "o", "_", "d", "i", "p", "u", "t", "a", "d", "o">>,
      <<"t", "i", "p", "o", "_", "e", "l", "e", "c", "c", "i", "o", "n">>,
      <<"e", "n", "t", "i", "d", "a", "d">>,
      <<"d", "i", "s", "t", "r", "i", "t", "o">>,
      <<"c", "a", "b", "e", "c", "e", "r", "a">>,
      <<"c", "i", "r", "c", "u", "n", "s", "c", "r", "i", "p", "c", "i", "o", "n">>,
      <<"f", "e", "c", "h", "a", "_", "n", "a", "c", "i", "m", "i", "e", "n", "t", "o">>,
      <<"s", "u", "p", "l", "e", "n", "t", "e">>,
      <<"l", "e", "g", "i", "s", "l", "a", "t", "u", "r", "a", "_", "a", "c", "t", "i", "v", "o">>,
      <<"t", "o", "t", "a", "l", "_", "c", "o", "m", "i", "t", "e", "s">>>>

reorder_columns_multiarchivo(frame) ==
    LET existing_priority ==
            SelectSeq(priority_cols_multiarchivo,
                      LAMBDA c : c \in Range(frame.columns))
        remaining_cols ==
            sorted(SelectSeq(frame.columns,
                             LAMBDA c : c \notin Range(existing_priority)))
        final_order == existing_priority \o remaining_cols
    IN select(frame, final_order)

\* lxi_dataprocessing_polars.py and process_lxi_data.py: the groups in the
\* order of the dict, each with the names it starts with
get_column_groups ==
    <<<<"base_info", <<<<"d", "i", "p", "_", "i", "d">>,
                         <<"n", "o", "m", "b", "r", "e", "_", "c", "o", "m", "p", "l", "e", "t", "o">>,
                         <<"e", "n", "t", "i", "d", "a", "d">>,
                         <<"c", "a", "b", "e", "c", "e", "r", "a">>,
                         <<"d", "i", "s", "t", "r", "i", "t", "o", "_", "d", "i", "p", "u", "t", "a", "c", "i", "o", "n">>,
                         <<"p", "a", "r", "t", "i", "d", "o", "_", "d", "i", "p", "u", "t", "a", "d", "o">>,
                         <<"t", "i", "p", "o", "_", "e", "l", "e", "c", "c", "i", "o", "n">>,
                         <<"c", "u", "r", "u", "l">>,
                         <<"f", "e", "c", "h", "a", "_", "n", "a", "c", "i", "m", "i", "e", "n", "t", "o">>,
                         <<"s", "u", "p", "l", "e", "n", "t", "e">>,
                         <<"U", "r", "l">>,
                         <<"l", "e", "g", "i", "s", "l", "a", "t", "u", "r", "a", "_", "a", "c", "t", "i", "v", "o">>>>>>,
      <<"nombre_comite", <<>>>>,
      <<"tipo_comite", <<>>>>,
      <<"actividad_empresarial", <<>>>>,
      <<"actividad_docente", <<<<"a", "c", "t", "i", "v", "i", "d", "a", "d", "_", "d", "o", "c", "e", "n", "t", "e">>>>>>,
      <<"experiencia_apf", <<<<"e", "x", "p", "e", "r", "i", "e", "n", "c", "i", "a", "_", "a", "p", "f">>>>>>,
      <<"detalle_exp_apf", <<>>>>,
      <<"experiencia_aplocal", <<<<"e", "x", "p", "e", "r", "i", "e", "n", "c", "i", "a", "_", "a", "p", "l", "o", "c", "a", "l">>>>>>,
      <<"detalle_exp_aplocal", <<>>>>,
      <<"asociaciones", <<<<"a", "s", "o", "c", "i", "a", "c", "i", "o", "n", "e", "s">>>>>>,
      <<"asociaciones_rol", <<>>>>,
      <<"asociaciones_detalle", <<>>>>,
      <<"cargo_eleccion_popular", <<<<"c", "a", "r", "g", "o", "_", "e", "l", "e", "c", "c", "i", "o", "n", "_", "p", "o", "p", "u", "l", "a", "r">>>>>>,
      <<"cargo_eleccion_popular_numbered", <<>>>>,
      <<"cargo_eleccion_popular_partido", <<>>>>,
      <<"cargo_eleccion_popular_periodo", <<>>>>,
      <<"experiencia_legislativa", <<<<"e", "x", "p", "e", "r", "i", "e", "n", "c", "i", "a", "_", "l", "e", "g", "i", "s", "l", "a", "t", "i", "v", "a">>>>>>,
      <<"experiencia_legislativa_detalle", <<>>>>,
      <<"experiencia_legislativa_legislatura", <<>>>>,
      <<"escolaridad_tipo", <<>>>>,
      <<"escolaridad_detalle", <<>>>>,
      <<"escolaridad_periodo", <<>>>>,
      <<"exp_leg_previa", <<>>>>,
      <<"exp_leg_previa_legislatura", <<>>>>,
      <<"exp_leg_previa_yr", <<>>>>,
      <<"empleo_privado", <<<<"e", "m", "p", "l", "e", "o", "_", "p", "r", "i", "v", "a", "d", "o">>>>>>,
      <<"empleo_privado_numbered", <<>>>>,
      <<"empleo_privado_empresa", <<>>>>,
      <<"empleo_privado_yr", <<>>>>,
      <<"deportista_altorend", <<<<"d", "e", "p", "o", "r", "t", "i", "s", "t", "a", "_", "a", "l", "t", "o", "r", "e", "n", "d">>>>>>,
      <<"exp_pol", <<>>>>,
      <<"exp_pol_org", <<>>>>>>

base_info == get_column_groups[1][2]

\* the elif chain: <<prefix, group, name the branch excludes>>
CategoryRules ==
    <<<<<<"n", "o", "m", "b", "r", "e", "_", "c", "o", "m", "i", "t", "e">>,
        "nombre_comite", <<>>>>,
      <<<<"a", "c", "t", "i", "v", "i", "d", "a", "d", "_", "e", "m", "p", "r", "e", "s", "a", "r", "i", "a", "l">>,
        "actividad_empresarial", <<>>>>,
      <<<<"d", "e", "t", "a", "l", "l", "e", "_", "e", "x", "p", "_", "a", "p", "f">>,
        "detalle_exp_apf", <<>>>>,
      <<<<"d", "e", "t", "a", "l", "l", "e", "_", "e", "x", "p", "_", "a", "p", "l", "o", "c", "a", "l">>,
        "detalle_exp_aplocal", <<>>>>,
      <<<<"a", "s", "o", "c", "i", "a", "c", "i", "o", "n", "e", "s", "_", "r", "o", "l">>,
        "asociaciones_rol", <<>>>>,
      <<<<"a", "s", "o", "c", "i", "a", "c", "i", "o", "n", "e", "s", "_", "d", "e", "t", "a", "l", "l", "e">>,
        "asociaciones_detalle", <<>>>>,
      <<<<"c", "a", "r", "g", "o", "_", "e", "l", "e", "c", "c", "i", "o", "n", "_", "p", "o", "p", "u", "l", "a", "r", "_", "p", "a", "r", "t", "i", "d", "o">>,
        "cargo_eleccion_popular_partido", <<>>>>,
      <<<<"c", "a", "r", "g", "o", "_", "e", "l", "e", "c", "c", "i", "o", "n", "_", "p", "o", "p", "u", "l", "a", "r", "_", "p", "e", "r", "i", "o", "d", "o">>,
        "cargo_eleccion_popular_periodo", <<>>>>,
      <<<<"c", "a", "r", "g", "o", "_", "e", "l", "e", "c", "c", "i", "o", "n", "_", "p", "o", "p", "u", "l", "a", "r", "_">>,
        "cargo_eleccion_popular_numbered", <<"c", "a", "r", "g", "o", "_", "e", "l", "e", "c", "c", "i", "o", "n", "_", "p", "o", "p", "u", "l", "a", "r">>>>,
      <<<<"e", "x", "p", "e", "r", "i", "e", "n", "c", "i", "a", "_", "l", "e", "g", "i", "s", "l", "a", "t", "i", "v", "a", "_", "d", "e", "t", "a", "l", "l", "e">>,
        "experiencia_legislativa_detalle", <<>>>>,
      <<<<"e", "x", "p", "e", "r", "i", "e", "n", "c", "i", "a", "_", "l", "e", "g", "i", "s", "l", "a", "t", "i", "v", "a", "_", "l", "e", "g", "i", "s", "l", "a", "t", "u", "r", "a">>,
        "experiencia_legislativa_legislatura", <<>>>>,
      <<<<"e", "s", "c", "o", "l", "a", "r", "i", "d", "a", "d", "_", "t", "i", "p", "o">>,
        "escolaridad_tipo", <<>>>>,
      <<<<"e", "s", "c", "o", "l", "a", "r", "i", "d", "a", "d", "_", "d", "e", "t", "a", "l", "l", "e">>,
        "escolaridad_detalle", <<>>>>,
      <<<<"e", "s", "c", "o", "l", "a", "r", "i", "d", "a", "d", "_", "p", "e", "r", "i", "o", "d", "o">>,
        "escolaridad_periodo", <<>>>>,
      <<<<"e", "x", "p", "_", "l", "e", "g", "_", "p", "r", "e", "v", "i", "a", "_", "l", "e", "g", "i", "s", "l", "a", "t", "u", "r", "a">>,
        "exp_leg_previa_legislatura", <<>>>>,
      <<<<"e", "x", "p", "_", "l", "e", "g", "_", "p", "r", "e", "v", "i", "a", "_", "y", "r">>,
        "exp_leg_previa_yr", <<>>>>,
      <<<<"e", "x", "p", "_", "l", "e", "g", "_", "p", "r", "e", "v", "i", "a", "_">>,
        "exp_leg_previa", <<"e", "x", "p", "_", "l", "e", "g", "_", "p", "r", "e", "v", "i", "a">>>>,
      <<<<"e", "m", "p", "l", "e", "o", "_", "p", "r", "i", "v", "a", "d", "o", "_", "e", "m", "p", "r", "e", "s", "a">>,
        "empleo_privado_empresa", <<>>>>,
      <<<<"e", "m", "p", "l", "e", "o", "_", "p", "r", "i", "v", "a", "d", "o", "_", "y", "r">>,
        "empleo_privado_yr", <<>>>>,
      <<<<"e", "m", "p", "l", "e", "o", "_", "p", "r", "i", "v", "a", "d", "o", "_">>,
        "empleo_privado_numbered", <<"e", "m", "p", "l", "e", "o", "_", "p", "r", "i", "v", "a", "d", "o">>>>,
      <<<<"e", "x", "p", "_", "p", "o", "l", "_", "o", "r", "g">>,
        "exp_pol_org", <<>>>>,
      <<<<"e", "x", "p", "_", "p", "o", "l">>,
        "exp_pol", <<>>>>>>

\* the group the chain appends col to, "" when no branch takes it
GroupOf(col) ==
    IF col \in Range(base_info) THEN ""
    ELSE LET taken == {r \in 1..Len(CategoryRules) :
                          /\ startswith(col, CategoryRules[r][1])
                          /\ col # CategoryRules[r][3]}
         IN IF taken = {} THEN ""
            ELSE CategoryRules[CHOOSE r \in taken :
                                   \A q \in taken : r <= q][2]

\* the columns of the frame appended, in their order, to their groups
categorize_columns(frame, column_groups) ==
    [g \in 1..Len(column_groups) |->
        <<column_groups[g][1],
          column_groups[g][2] \o
              SelectSeq(frame.columns,
                        LAMBDA col : GroupOf(col) = column_groups[g][1])>>]

\* process_lxi_data.py: every group sorted with natural_sort_key, then the
\* groups one after the other
ordered_columns(frame) ==
    LET column_groups == categorize_columns(frame, get_column_groups)
    IN Flatten([g \in 1..Len(column_groups) |->
                   sort_natural(column_groups[g][2])])

\* df_final[ordered_columns] fails on a name the frame does not have
SelectFails(frame) ==
    \E c \in Range(ordered_columns(frame)) : c \notin Range(frame.columns)

\* lxi_dataprocessing_polars.py: columns.sort(key=natural_sort_key) on a
\* group that is not empty calls the key function, which raises
SortRaises(frame) ==
    LET column_groups == categorize_columns(frame, get_column_groups)
    IN \E g \in 1..Len(column_groups) :
           \E i \in 1..Len(column_groups[g][2]) :
               natural_sort_key_polars(column_groups[g][2][i]) = NameError

\* reorder_columns of lxi_dataprocessing_polars.py: the sort of a group
\* raises; were every group empty, select would be given no name
reorder_columns_polars(frame) ==
    IF SortRaises(frame) THEN NameError ELSE select(frame, <<>>)

---------------------------------------------------------------------------
(* One run of the column ordering of any of the four programs *)

\* the highest index of a numbered column in the tables offered
MaxIndex == 10

\* the merged table of lxi_script.py and of
\* multiarchivo_procesamiento_congreso.py: Sheet1, the table of Sheet2
\* when it has rows (committees), the table of Sheet3 when it has rows
\* (profiles): merge_dataframes leaves out the join of an empty table. The
\* columns of Sheet3 are the keys of the flat records in the order they
\* first appear. The first deputy has first escolaridad records and the
\* longest history has n, so the columns of the indices above first come
\* after the last key of the first record
ScriptColumns(first, n, committees, profiles) ==
    LET numbered(i) ==
            <<ColumnName(<<"e", "s", "c", "o", "l", "a", "r", "i", "d", "a", "d", "_">>, i),
              ColumnName(<<"e", "s", "c", "o", "l", "a", "r", "i", "d", "a", "d", "_", "i", "n", "s", "t", "i", "t", "u", "c", "i", "o", "n", "_">>, i)>>
    IN <<<<"d", "i", "p", "_", "i", "d">>,
         <<"n", "o", "m", "b", "r", "e", "_", "c", "o", "m", "p", "l", "e", "t", "o">>>>
       \o (IF committees
           THEN <<<<"t", "o", "t", "a", "l", "_", "c", "o", "m", "i", "t", "e", "s">>>>
           ELSE <<>>)
       \o (IF profiles
           THEN <<<<"e", "s", "c", "o", "l", "a", "r", "i", "d", "a", "d">>>>
                \o Flatten([i \in 1..first |-> numbered(i)])
                \o <<<<"e", "x", "p", "_", "a", "p", "f">>>>
                \o Flatten([i \in 1..(n - first) |-> numbered(first + i)])
           ELSE <<>>)

\* the presence flags the older programs write for every deputy
LegacyFlags ==
    <<<<"a", "c", "t", "i", "v", "i", "d", "a", "d", "_", "d", "o", "c", "e", "n", "t", "e">>,
      <<"e", "x", "p", "e", "r", "i", "e", "n", "c", "i", "a", "_", "a", "p", "f">>,
      <<"e", "x", "p", "e", "r", "i", "e", "n", "c", "i", "a", "_", "a", "p", "l", "o", "c", "a", "l">>,
      <<"a", "s", "o", "c", "i", "a", "c", "i", "o", "n", "e", "s">>,
      <<"c", "a", "r", "g", "o", "_", "e", "l", "e", "c", "c", "i", "o", "n", "_", "p", "o", "p", "u", "l", "a", "r">>,
      <<"e", "x", "p", "e", "r", "i", "e", "n", "c", "i", "a", "_", "l", "e", "g", "i", "s", "l", "a", "t", "i", "v", "a">>,
      <<"e", "m", "p", "l", "e", "o", "_", "p", "r", "i", "v", "a", "d", "o">>,
      <<"d", "e", "p", "o", "r", "t", "i", "s", "t", "a", "_", "a", "l", "t", "o", "r", "e", "n", "d">>>>

\* columns of the merged table of lxi_dataprocessing_polars.py that no
\* group lists and no branch of the elif chain takes: the flag of
\* process_experiencia_politica, the count of process_sheet2, the cleaned
\* name of procesar_sheet1
UngroupedColumns ==
    <<<<"e", "x", "p", "e", "r", "i", "e", "n", "c", "i", "a", "_", "p", "o", "l">>,
      <<"t", "o", "t", "a", "l", "_", "c", "o", "m", "i", "t", "e", "s">>,
      <<"n", "o", "m", "b", "r", "e", "_", "c", "o", "m", "p", "l", "e", "t", "o", "_", "l", "i", "m", "p", "i", "o">>>>

\* the merged table of lxi_dataprocessing_polars.py and of
\* process_lxi_data.py: the columns of Sheet1 (complete = it brings every
\* column of base_info), then, when Sheet3 has rows (profiles), the keys
\* of its records in the order they first appear; the join of an empty
\* table is left out. A record has the numbered escolaridad keys after
\* experiencia_legislativa and before empleo_privado; the first deputy
\* has first escolaridad rows and the longest history has n, so the
\* columns of the indices above first come after the last key of the first
\* record. more = the columns outside the groups are listed too, where
\* lxi_dataprocessing_polars.py has them: the cleaned name after the
\* columns of Sheet1, total_comites (committees = Sheet2 has rows) before
\* the keys of Sheet3, experiencia_pol as the last key of every record
LegacyColumns(first, n, complete, more, committees, profiles) ==
    LET numbered(i) ==
            <<ColumnName(<<"e", "s", "c", "o", "l", "a", "r", "i", "d", "a", "d", "_", "t", "i", "p", "o", "_">>, i),
              ColumnName(<<"e", "s", "c", "o", "l", "a", "r", "i", "d", "a", "d", "_", "d", "e", "t", "a", "l", "l", "e", "_">>, i),
              ColumnName(<<"e", "s", "c", "o", "l", "a", "r", "i", "d", "a", "d", "_", "p", "e", "r", "i", "o", "d", "o", "_">>, i)>>
    IN (IF complete THEN base_info
        ELSE SelectSeq(base_info, LAMBDA c : c # <<"U", "r", "l">>))
       \o (IF more THEN <<UngroupedColumns[3]>> ELSE <<>>)
       \o (IF more /\ committees THEN <<UngroupedColumns[2]>> ELSE <<>>)
       \o (IF profiles
           THEN SubSeq(LegacyFlags, 1, 6)
                \o Flatten([i \in 1..first |-> numbered(i)])
                \o SubSeq(LegacyFlags, 7, 8)
                \o (IF more THEN <<UngroupedColumns[1]>> ELSE <<>>)
                \o Flatten([i \in 1..(n - first) |-> numbered(first + i)])
           ELSE <<>>)

\* the columns as listed, from the last to the first, and turned so that
\* the column after the first lead ones is in front
ColumnOrders(cols, lead) ==
    LET k == IF lead < Len(cols) THEN lead ELSE 0
    IN {cols, [i \in 1..Len(cols) |-> cols[Len(cols) + 1 - i]],
        SubSeq(cols, k + 1, Len(cols)) \o SubSeq(cols, 1, k)}

\* one row, each cell holding the place its column has in the frame
FrameOf(cols) ==
    [columns |-> cols,
     rows |-> <<[c \in Range(cols) |->
                   Num(CHOOSE i \in 1..Len(cols) : cols[i] = c)]>>]

\* the merged tables offered: Sheet2 and Sheet3 each with rows or empty,
\* and with rows of Sheet3 every history up to MaxIndex
MergedTables(program) ==
    IF program \in {"lxi_script", "multiarchivo_procesamiento_congreso"}
    THEN {FrameOf(cols) :
             cols \in UNION {UNION {ColumnOrders(
                                       ScriptColumns(first, n, committees,
                                                     profiles), 4) :
                                       first \in 0..n,
                                       committees \in BOOLEAN,
                                       profiles \in IF n = 0 THEN BOOLEAN
                                                    ELSE {TRUE}} :
                                n \in 0..MaxIndex}}
    ELSE {FrameOf(cols) :
             cols \in UNION {UNION {ColumnOrders(
                                       LegacyColumns(first, n, t[1], t[2],
                                                     t[3], profiles),
                                       Len(LegacyColumns(0, 0, t[1], t[2],
                                                         t[3], profiles))
                                           - 2) :
                                       first \in 0..n,
                                       profiles \in IF n = 0 THEN BOOLEAN
                                                    ELSE {TRUE}} :
                                n \in 0..MaxIndex,
                                t \in {<<TRUE, FALSE, FALSE>>,
                                       <<FALSE, FALSE, FALSE>>}
                                      \cup IF program
                                               = "lxi_dataprocessing_polars"
                                           THEN {TRUE, FALSE}
                                                \X {TRUE} \X {TRUE, FALSE}
                                           ELSE {}}}

InitColumns ==
    /\ prog \in {"lxi_script", "multiarchivo_procesamiento_congreso",
                 "lxi_dataprocessing_polars", "process_lxi_data"}
    /\ df_final \in MergedTables(prog)
    /\ pc = "reorder"
    /\ df_sheet1_processed = NoFrame
    /\ df_sheet2_processed = NoFrame
    /\ sheet3 = NoFrame
    /\ df = NoFrame
    /\ ids = <<>>
    /\ results = <<>>
    /\ df_sheet3_processed = NoFrame
    /\ NoFilesTouched

\* lxi_script.py run_pipeline: df_final = reorder_columns(df_final)
ScriptReorder ==
    /\ prog = "lxi_script"
    /\ pc = "reorder"
    /\ df_final' = reorder_columns(df_final)
    /\ pc' = "save"
    /\ UNCHANGED file_vars
    /\ UNCHANGED <<prog, df_sheet1_processed, df_sheet2_processed, sheet3,
                   df, ids, results, df_sheet3_processed>>

\* multiarchivo_procesamiento_congreso.py run_pipeline
MultiarchivoReorder ==
    /\ prog = "multiarchivo_procesamiento_congreso"
    /\ pc = "reorder"
    /\ df_final' = reorder_columns_multiarchivo(df_final)
    /\ pc' = "save"
    /\ UNCHANGED file_vars
    /\ UNCHANGED <<prog, df_sheet1_processed, df_sheet2_processed, sheet3,
                   df, ids, results, df_sheet3_processed>>

\* lxi_dataprocessing_polars.py run_pipeline: the run ends with the
\* NameError that reorder_columns raises
PolarsReorder ==
    /\ prog = "lxi_dataprocessing_polars"
    /\ pc = "reorder"
    /\ IF SortRaises(df_final)
       THEN pc' = "error" /\ UNCHANGED df_final
       ELSE pc' = "save" /\ df_final' = reorder_columns_polars(df_final)
    /\ UNCHANGED file_vars
    /\ UNCHANGED <<prog, df_sheet1_processed, df_sheet2_processed, sheet3,
                   df, ids, results, df_sheet3_processed>>

\* process_lxi_data.py: df_final = df_final[ordered_columns]
PandasReorder ==
    /\ prog = "process_lxi_data"
    /\ pc = "reorder"
    /\ IF SelectFails(df_final)
       THEN pc' = "error" /\ UNCHANGED df_final
       ELSE pc' = "save" /\ df_final' = select(df_final,
                                               ordered_columns(df_final))
    /\ UNCHANGED file_vars
    /\ UNCHANGED <<prog, df_sheet1_processed, df_sheet2_processed, sheet3,
                   df, ids, results, df_sheet3_processed>>

NextColumns ==
    \/ ScriptReorder
    \/ MultiarchivoReorder
    \/ PolarsReorder
    \/ PandasReorder

SpecColumns == InitColumns /\ [][NextColumns]_vars

---------------------------------------------------------------------------
(* lxi_script.py: one whole run of run_pipeline, from the load to the     *)
(* write of the output file                                               *)

\* the column names the merged table of a run can carry, as the text the
\* tables are keyed by and as the characters reorder_columns compares
Spelling ==
    <<
      <<"dip_id",
        <<"d", "i", "p", "_", "i", "d">>>>,
      <<"total_comites",
        <<"t", "o", "t", "a", "l", "_", "c", "o", "m", "i", "t", "e", "s">>>>,
      <<"escolaridad",
        <<"e", "s", "c", "o", "l", "a", "r", "i", "d", "a", "d">>>>,
      <<"exp_politica",
        <<"e", "x", "p", "_", "p", "o", "l", "i", "t", "i", "c", "a">>>>,
      <<"exp_laboral_privada",
        <<"e", "x", "p", "_", "l", "a", "b", "o", "r", "a", "l", "_", "p", "r", "i", "v", "a", "d", "a">>>>,
      <<"exp_leg_previa",
        <<"e", "x", "p", "_", "l", "e", "g", "_", "p", "r", "e", "v", "i", "a">>>>,
      <<"exp_apf",
        <<"e", "x", "p", "_", "a", "p", "f">>>>,
      <<"exp_aplocal",
        <<"e", "x", "p", "_", "a", "p", "l", "o", "c", "a", "l">>>>,
      <<"cargos_legislativos_previa",
        <<"c", "a", "r", "g", "o", "s", "_", "l", "e", "g", "i", "s", "l", "a", "t", "i", "v", "o", "s", "_", "p", "r", "e", "v", "i", "a">>>>,
      <<"cargo_eleccion_popular",
        <<"c", "a", "r", "g", "o", "_", "e", "l", "e", "c", "c", "i", "o", "n", "_", "p", "o", "p", "u", "l", "a", "r">>>>,
      <<"exp_asociaciones",
        <<"e", "x", "p", "_", "a", "s", "o", "c", "i", "a", "c", "i", "o", "n", "e", "s">>>>,
      <<"exp_docente",
        <<"e", "x", "p", "_", "d", "o", "c", "e", "n", "t", "e">>>>,
      <<"publicaciones",
        <<"p", "u", "b", "l", "i", "c", "a", "c", "i", "o", "n", "e", "s">>>>,
      <<"exp_empresarial",
        <<"e", "x", "p", "_", "e", "m", "p", "r", "e", "s", "a", "r", "i", "a", "l">>>>,
      <<"logros_deportivos",
        <<"l", "o", "g", "r", "o", "s", "_", "d", "e", "p", "o", "r", "t", "i", "v", "o", "s">>>>,
      <<"num_ordinaria",
        <<"n", "u", "m", "_", "o", "r", "d", "i", "n", "a", "r", "i", "a">>>>,
      <<"num_comite",
        <<"n", "u", "m", "_", "c", "o", "m", "i", "t", "e">>>>,
      <<"num_especial",
        <<"n", "u", "m", "_", "e", "s", "p", "e", "c", "i", "a", "l">>>>,
      <<"num_bicamaral",
        <<"n", "u", "m", "_", "b", "i", "c", "a", "m", "a", "r", "a", "l">>>>>>
    \o [i \in 1..MaxCommittees |->
          <<"ordinaria_" \o ToString(i),
            ColumnName(<<"o", "r", "d", "i", "n", "a", "r", "i", "a", "_">>, i)>>]
    \o [i \in 1..MaxRows |->
          <<"escolaridad_" \o ToString(i),
            ColumnName(<<"e", "s", "c", "o", "l", "a", "r", "i", "d", "a", "d", "_">>, i)>>]
    \o [i \in 1..MaxRows |->
          <<"escolaridad_institucion_" \o ToString(i),
            ColumnName(<<"e", "s", "c", "o", "l", "a", "r", "i", "d", "a", "d", "_", "i", "n", "s", "t", "i", "t", "u", "c", "i", "o", "n", "_">>, i)>>]

spelled(name) ==
    Spelling[CHOOSE k \in 1..Len(Spelling) : Spelling[k][1] = name][2]

named(chars) ==
    Spelling[CHOOSE k \in 1..Len(Spelling) : Spelling[k][2] = chars][1]

\* reorder_columns applied to a table keyed by text
reorder_columns_named(frame) ==
    LET cols == [i \in 1..Len(frame.columns) |-> spelled(frame.columns[i])]
        final_order == reorder_columns(FrameOf(cols)).columns
    IN select(frame, [i \in 1..Len(final_order) |-> named(final_order[i])])

InitRun ==
    /\ prog = "lxi_script"
    /\ df_sheet1_processed \in Sheet1Tables
    /\ df_sheet2_processed \in Sheet2Tables(prog)
    /\ sheet3 \in PipelineSheets
    /\ pc = "load"
    /\ df = NoFrame
    /\ ids = <<>>
    /\ results = <<>>
    /\ df_sheet3_processed = NoFrame
    /\ df_final = NoFrame
    /\ NoFilesTouched

\* the three load_excel_sheet calls, process_sheet1 and process_sheet2
ScriptLoad ==
    /\ prog = "lxi_script"
    /\ pc = "load"
    /\ pc' = "process_sheet3"
    /\ UNCHANGED file_vars
    /\ UNCHANGED <<prog, df_sheet1_processed, df_sheet2_processed, sheet3,
                   df, ids, results, df_sheet3_processed, df_final>>

\* df_final = reorder_columns(df_final) on the table merge_dataframes gave
ScriptReorderMerged ==
    /\ prog = "lxi_script"
    /\ pc = "reorder"
    /\ df_final' = reorder_columns_named(df_final)
    /\ pc' = "save"
    /\ UNCHANGED file_vars
    /\ UNCHANGED <<prog, df_sheet1_processed, df_sheet2_processed, sheet3,
                   df, ids, results, df_sheet3_processed>>

\* config.output_file.parent.mkdir(...),
\* df_final.write_parquet(config.output_file); return df_final
ScriptSave ==
    /\ prog = "lxi_script"
    /\ pc = "save"
    /\ output_file' = Parquet(df_final)
    /\ pc' = "returned"
    /\ UNCHANGED <<prog, df_sheet1_processed, df_sheet2_processed, sheet3,
                   df, ids, results, df_sheet3_processed, df_final>>
    /\ UNCHANGED <<files, skip_existing, batch_idx, batch_results, disk>>

\* variant: the except block writes the table it has and then raises
ScriptRaise_saves_partial ==
    /\ prog = "lxi_script"
    /\ pc \in {"load", "process_sheet3", "members", "merge", "reorder",
              "save"}
    /\ pc' = "raised"
    /\ output_file' = Parquet(df_final)
    /\ UNCHANGED <<prog, df_sheet1_processed, df_sheet2_processed, sheet3,
                   df, ids, results, df_sheet3_processed, df_final>>
    /\ UNCHANGED <<files, skip_existing, batch_idx, batch_results, disk>>

\* a statement of the try block raises, mkdir and write_parquet
\* included (then nothing is written): the except block logs and raises
\* again
ScriptRaise ==
    /\ prog = "lxi_script"
    /\ pc \in {"load", "process_sheet3", "members", "merge", "reorder",
              "save"}
    /\ pc' = "raised"
    /\ output_file' = output_file
    /\ UNCHANGED <<prog, df_sheet1_processed, df_sheet2_processed, sheet3,
                   df, ids, results, df_sheet3_processed, df_final>>
    /\ UNCHANGED <<files, skip_existing, batch_idx, batch_results, disk>>

NextRun ==
    \/ ScriptLoad
    \/ ScriptSheet3Begin
    \/ ScriptSheet3Member
    \/ ScriptSheet3Return
    \/ ScriptMerge
    \/ ScriptReorderMerged
    \/ ScriptSave
    \/ ScriptRaise

SpecRun == InitRun /\ [][NextRun]_vars

---------------------------------------------------------------------------
(* multiarchivo_procesamiento_congreso.py: ExcelFileProcessor.process_batch *)

\* the time of a write_parquet of this batch, later than every input's
Now == 3

\* the input files have a name, a modification time, a workbook that
\* run_pipeline processes or raises on, and an output path that mkdir and
\* write_parquet can write or raise on; an output that exists has a time
InitBatch ==
    /\ prog = "multiarchivo_procesamiento_congreso"
    /\ \E n \in 0..MaxFiles :
          /\ files \in
                 {[i \in 1..n |->
                     [name |-> "LXI_" \o ToString(i) \o ".xlsx",
                      stem |-> "LXI_" \o ToString(i),
                      st_mtime |-> t[i],
                      pipeline |-> p[i],
                      write |-> w[i]]] :
                    t \in [1..n -> 1..2],
                    p \in [1..n -> {"returns", "raises"}],
                    w \in [1..n -> {"writes", "raises"}]}
          /\ disk \in [1..n -> 0..2]
    /\ skip_existing \in BOOLEAN
    /\ pc = "process_batch"
    /\ batch_idx = 0
    /\ batch_results = <<>>
    /\ output_file = NoFile
    /\ df_sheet1_processed = NoFrame
    /\ df_sheet2_processed = NoFrame
    /\ sheet3 = NoFrame
    /\ df = NoFrame
    /\ ids = <<>>
    /\ results = <<>>
    /\ df_sheet3_processed = NoFrame
    /\ df_final = NoFrame

\* _should_skip: the output exists and is newer than the input
should_skip(input_file, output_mtime) ==
    IF output_mtime = 0 THEN FALSE
    ELSE output_mtime > input_file.st_mtime

\* _process_single_file: the dictionary it returns, and whether it wrote
\* the output. An exception of run_pipeline, of mkdir or of write_parquet
\* ends in the except clause
process_single_file(file_path, output_name) ==
    IF file_path.pipeline = "returns" /\ file_path.write = "writes"
    THEN [wrote |-> TRUE,
          result |-> << <<"file", Str(file_path.name)>>,
                        <<"output", Str(output_name)>>,
                        <<"status", Str("success")>>,
                        <<"rows", Num(1)>>,
                        <<"columns", Num(1)>>,
                        <<"duration", Null>> >>]
    ELSE [wrote |-> FALSE,
          result |-> << <<"file", Str(file_path.name)>>,
                        <<"status", Str("error")>>,
                        <<"error",
                          Str(IF file_path.pipeline = "raises"
                              THEN "run_pipeline" ELSE "write_parquet")>> >>]

\* the body of the for statement on one file: the results dictionary after
\* it. The output path is <stem>_processed.parquet (_get_output_path).
\* result["success"] on a dictionary without that key is a KeyError,
\* which the except clause of the loop catches
loop_body(res, file_path, skip, output_mtime) ==
    IF skip /\ should_skip(file_path, output_mtime)
    THEN [res EXCEPT !.skipped = @ + 1,
                     !.details = Append(@,
                         << <<"file", Str(file_path.name)>>,
                            <<"status", Str("skipped")>>,
                            <<"reason",
                              Str("Already processed and up to date")>> >>)]
    ELSE LET output_name == file_path.stem \o "_processed.parquet"
             result == process_single_file(file_path, output_name).result
             appended == [res EXCEPT !.details = Append(@, result)]
         IN IF Has(result, "success")
            THEN IF Get(result, "success") \notin {Null, Num(0), Str("")}
                 THEN [appended EXCEPT !.success = @ + 1]
                 ELSE [appended EXCEPT !.errors = @ + 1]
            ELSE [appended EXCEPT
                     !.errors = @ + 1,
                     !.details = Append(@,
                         << <<"file", Str(file_path.name)>>,
                            <<"status", Str("error")>>,
                            <<"error", Str("'success'")>> >>)]

BatchBegin ==
    /\ prog = "multiarchivo_procesamiento_congreso"
    /\ pc = "process_batch"
    /\ batch_results' = [success |-> 0, errors |-> 0, skipped |-> 0,
                         details |-> <<>>]
    /\ batch_idx' = 0
    /\ pc' = "files"
    /\ UNCHANGED <<prog, df_sheet1_processed, df_sheet2_processed, sheet3,
                   df, ids, results, df_sheet3_processed, df_final>>
    /\ UNCHANGED <<output_file, files, skip_existing, disk>>

\* one iteration of the loop over the files
BatchFile ==
    /\ prog = "multiarchivo_procesamiento_congreso"
    /\ pc = "files"
    /\ batch_idx < Len(files)
    /\ LET i == batch_idx + 1
           file_path == files[i]
       IN /\ batch_results' =
                 loop_body(batch_results, file_path, skip_existing, disk[i])
          /\ disk' =
                 IF /\ ~(skip_existing /\ should_skip(file_path, disk[i]))
                    /\ process_single_file(
                           file_path,
                           file_path.stem \o "_processed.parquet").wrote
                 THEN [disk EXCEPT ![i] = Now]
                 ELSE disk
          /\ batch_idx' = i
    /\ UNCHANGED <<prog, df_sheet1_processed, df_sheet2_processed, sheet3,
                   pc, df, ids, results, df_sheet3_processed, df_final>>
    /\ UNCHANGED <<output_file, files, skip_existing>>

\* the loop is over: return results
BatchReturn ==
    /\ prog = "multiarchivo_procesamiento_congreso"
    /\ pc = "files"
    /\ batch_idx = Len(files)
    /\ pc' = "returned"
    /\ UNCHANGED file_vars
    /\ UNCHANGED <<prog, df_sheet1_processed, df_sheet2_processed, sheet3,
                   df, ids, results, df_sheet3_processed, df_final>>

NextBatch ==
    \/ BatchBegin
    \/ BatchFile
    \/ BatchReturn

SpecBatch == InitBatch /\ [][NextBatch]_vars

---------------------------------------------------------------------------
(* Vocabulary of the properties *)

\* the 13 category blocks of lxi_script.py in the order they are written
ScriptBlocks ==
    ProfileBlocksHead \o <<CargoEleccionPopularBlock>> \o ProfileBlocksTail

\* positions in Sheet3 of the events of member m whose label the registry
\* sends to category c (a label outside the registry stands for itself)
EventsOf(m, c, registry) ==
    {j \in 1..Len(sheet3.rows) :
        /\ sheet3.rows[j]["dip_id"] = m
        /\ (IF sheet3.rows[j]["tipo"] \in DOMAIN registry
            THEN registry[sheet3.rows[j]["tipo"]]
            ELSE sheet3.rows[j]["tipo"]) = c}

\* positions in Sheet3 of the events of member m labelled exactly tipo
EventsLabelled(m, tipo) ==
    {j \in 1..Len(sheet3.rows) :
        sheet3.rows[j]["dip_id"] = m /\ sheet3.rows[j]["tipo"] = tipo}

\* text of a source cell inside a detail field
Text(v) == IF v = Null THEN Str("") ELSE v

MemberOf(profile) == Get(profile, "dip_id")[2]

Numbered(prefix, i) == prefix \o ToString(i)

Profiles == {results[k] : k \in 1..Len(results)}

TableBuilt == pc \notin {"process_sheet3", "members"}

Merged == pc \notin {"process_sheet3", "members", "merge"}

DipIds(frame) == [i \in 1..Len(frame.rows) |-> frame.rows[i]["dip_id"][2]]

StrictlyAscending(s) == \A i \in 1..Len(s) - 1 : s[i] < s[i + 1]

---------------------------------------------------------------------------
(* C1: in a flat record of lxi_script.py the numbered detail fields of a   *)
(* category c carry exactly the indices 1..n, n the number of the member's *)
(* events of canonical category c: the keys of the record are dip_id, the  *)
(* 13 flags and, per category and projected field, the names prefix1 ..    *)
(* prefixn, nothing else and nothing missing.                              *)
C1_DetailIndicesAreOneToN ==
    prog = "lxi_script" =>
        \A p \in Profiles :
            Keys(p) =
                {"dip_id"}
                \cup {ScriptBlocks[b][2] : b \in 1..Len(ScriptBlocks)}
                \cup UNION {
                       {Numbered(ScriptBlocks[b][3][f][1], i) :
                           f \in 1..Len(ScriptBlocks[b][3]),
                           i \in 1..Cardinality(
                                  EventsOf(MemberOf(p), ScriptBlocks[b][1],
                                           TIPO_ACTIVIDAD_MAPPING))} :
                       b \in 1..Len(ScriptBlocks)}

\* a member with two escolaridad events, one exp_apf event and none else
C1_Witness ==
    /\ prog = "lxi_script"
    /\ \E p \in Profiles :
          /\ Has(p, "escolaridad_2")
          /\ Has(p, "exp_apf_1")
          /\ ~Has(p, "exp_apf_2")
          /\ Get(p, "exp_politica") = Num(0)

---------------------------------------------------------------------------
(* C2: in lxi_script.py detail index i of category c of member m holds the *)
(* values of the i-th row, in Sheet3 row order, among the rows of m of     *)
(* category c, whatever rows of other members or categories lie between.   *)
C2_IndexFollowsSourceOrder ==
    prog = "lxi_script" =>
        \A p \in Profiles :
            \A b \in 1..Len(ScriptBlocks) :
                LET part == EventsOf(MemberOf(p), ScriptBlocks[b][1],
                                     TIPO_ACTIVIDAD_MAPPING)
                    fields == ScriptBlocks[b][3]
                IN \A i \in 1..Cardinality(part) :
                       \A f \in 1..Len(fields) :
                           /\ Has(p, Numbered(fields[f][1], i))
                           /\ Get(p, Numbered(fields[f][1], i)) =
                                  Text(sheet3.rows[Nth(part, i)][fields[f][2]])

\* two escolaridad rows of one member with different values, separated in
\* Sheet3 by a row that is not an escolaridad row of that member
C2_Witness ==
    /\ prog = "lxi_script"
    /\ Len(sheet3.rows) = 3
    /\ \E p \in Profiles :
          /\ EventsOf(MemberOf(p), "escolaridad", TIPO_ACTIVIDAD_MAPPING)
                 = {1, 3}
          /\ Get(p, "escolaridad_1") = Str("Maestria")
          /\ Get(p, "escolaridad_2") = Str("Licenciatura")

---------------------------------------------------------------------------
(* C3: the presence flag of exp_apf (exp_apf in lxi_script.py,             *)
(* experiencia_apf in lxi_dataprocessing_polars.py) is 1 if the member has *)
(* an event of canonical category exp_apf and 0 otherwise.                 *)
C3_ApfFlagIffPartitionNonEmpty ==
    /\ prog = "lxi_script" =>
          \A p \in Profiles :
              /\ Has(p, "exp_apf")
              /\ Get(p, "exp_apf") =
                     IF EventsOf(MemberOf(p), "exp_apf",
                                 TIPO_ACTIVIDAD_MAPPING) # {}
                     THEN Num(1) ELSE Num(0)
    /\ prog = "lxi_dataprocessing_polars" =>
          \A p \in Profiles :
              /\ Has(p, "experiencia_apf")
              /\ Get(p, "experiencia_apf") =
                     IF EventsOf(MemberOf(p), "exp_apf",
                                 actividades_mapping) # {}
                     THEN Num(1) ELSE Num(0)

\* the half of C3 that lxi_script.py satisfies
C3_ScriptApfFlag ==
    prog = "lxi_script" => C3_ApfFlagIffPartitionNonEmpty

---------------------------------------------------------------------------
(* C4: actividad_docente is 1 if a record of the member's teaching         *)
(* partition has actividad = "Docente", and 0 otherwise: empty partition,  *)
(* no such record, no actividad column.                                    *)
DocenteExpected(part) ==
    IF /\ "actividad" \in Range(sheet3.columns)
       /\ \E j \in part : sheet3.rows[j]["actividad"] = Str("Docente")
    THEN Num(1) ELSE Num(0)

C4_DocenteFlagIffDocenteRecord ==
    /\ prog = "lxi_dataprocessing_polars" =>
          \A p \in Profiles :
              /\ Has(p, "actividad_docente")
              /\ Get(p, "actividad_docente") =
                     DocenteExpected(EventsOf(MemberOf(p), "exp_docente",
                                              actividades_mapping))
    /\ prog = "process_lxi_data" =>
          \A p \in Profiles :
              /\ Has(p, "actividad_docente")
              /\ Get(p, "actividad_docente") =
                     DocenteExpected(EventsLabelled(MemberOf(p),
                                                    "ACTIVIDADES DOCENTES"))

\* the half of C4 that process_lxi_data.py satisfies
C4_PandasDocenteFlag ==
    prog = "process_lxi_data" => C4_DocenteFlagIffDocenteRecord

---------------------------------------------------------------------------
(* C5: for the i-th record of a member's business-activity partition       *)
(* actividad_empresarial_i is detalle "," descripcion "," periodo, a null  *)
(* part written as the empty string and both commas kept.                  *)
EmpresarialExpected(j) ==
    Str(Text(sheet3.rows[j]["detalle"])[2] \o "," \o
        Text(sheet3.rows[j]["descripcion"])[2] \o "," \o
        Text(sheet3.rows[j]["periodo"])[2])

EmpresarialHolds(p, part) ==
    \A i \in 1..Cardinality(part) :
        /\ Has(p, Numbered("actividad_empresarial_", i))
        /\ Get(p, Numbered("actividad_empresarial_", i)) =
               EmpresarialExpected(Nth(part, i))

C5_EmpresarialConcatenation ==
    /\ prog = "lxi_dataprocessing_polars" =>
          \A p \in Profiles :
              EmpresarialHolds(p, EventsOf(MemberOf(p), "exp_empresarial",
                                           actividades_mapping))
    /\ prog = "process_lxi_data" =>
          \A p \in Profiles :
              EmpresarialHolds(p, EventsLabelled(MemberOf(p),
                                                 "Actividad Empresarial"))

\* the half of C5 that process_lxi_data.py satisfies
C5_PandasEmpresarial ==
    prog = "process_lxi_data" => C5_EmpresarialConcatenation

\* the record {detalle: "A", descripcion: null, periodo: "2010"} of the
\* example, written as "A,,2010"
C5_PandasExample ==
    /\ prog = "process_lxi_data"
    /\ \E p \in Profiles :
          /\ Has(p, "actividad_empresarial_1")
          /\ Get(p, "actividad_empresarial_1") = Str("A,,2010")

---------------------------------------------------------------------------
(* C6: the escolaridad example.  A member whose escolaridad partition is   *)
(* exactly the records (Licenciatura, UNAM, 2000), (Maestria, IPN, 2005).  *)
IsExample(part) ==
    /\ Cardinality(part) = 2
    /\ \A c \in {"descripcion", "detalle", "periodo"} :
          /\ sheet3.rows[Nth(part, 1)][c] = E1[c]
          /\ sheet3.rows[Nth(part, 2)][c] = E2[c]

\* every name a program can give to an escolaridad field
EscolaridadNames ==
    {"escolaridad"} \cup
    {Numbered(prefix, i) :
        prefix \in {"escolaridad_", "escolaridad_tipo_",
                    "escolaridad_detalle_", "escolaridad_periodo_",
                    "escolaridad_institucion_"},
        i \in 1..(Len(sheet3.rows) + 1)}

HasValue(p, k, text) == Has(p, k) /\ Get(p, k) = Str(text)

\* the statement as written: escolaridad_i, escolaridad_detalle_i and
\* escolaridad_periodo_i for i = 1, 2 and no field of index 3, in each of
\* the three programs
C6_ExampleFieldsAsWritten ==
    \A p \in Profiles :
        LET m == MemberOf(p)
            part == CASE prog = "lxi_script" ->
                             EventsOf(m, "escolaridad", TIPO_ACTIVIDAD_MAPPING)
                      [] prog = "lxi_dataprocessing_polars" ->
                             EventsOf(m, "escolaridad", actividades_mapping)
                      [] prog = "process_lxi_data" ->
                             EventsLabelled(m, "ESCOLARIDAD")
        IN IsExample(part) =>
               /\ HasValue(p, "escolaridad_1", "Licenciatura")
               /\ HasValue(p, "escolaridad_detalle_1", "UNAM")
               /\ HasValue(p, "escolaridad_periodo_1", "2000")
               /\ HasValue(p, "escolaridad_2", "Maestria")
               /\ HasValue(p, "escolaridad_detalle_2", "IPN")
               /\ HasValue(p, "escolaridad_periodo_2", "2005")
               /\ \A k \in Keys(p) \cap EscolaridadNames :
                      k \in {"escolaridad", "escolaridad_1", "escolaridad_2",
                             "escolaridad_detalle_1", "escolaridad_detalle_2",
                             "escolaridad_periodo_1", "escolaridad_periodo_2"}

\* C6 as amended: lxi_script.py writes escolaridad = 1, escolaridad_i and
\* escolaridad_institucion_i and no periodo; process_lxi_data.py (rows
\* labelled ESCOLARIDAD) and lxi_dataprocessing_polars.py (rows whose tipo
\* is "escolaridad") write escolaridad_tipo_i, escolaridad_detalle_i and
\* escolaridad_periodo_i; i = 1, 2 and no escolaridad field besides.
C6_ExampleFieldsPerProgram ==
    \A p \in Profiles :
        LET m == MemberOf(p)
        IN /\ (prog = "lxi_script"
               /\ IsExample(EventsOf(m, "escolaridad",
                                     TIPO_ACTIVIDAD_MAPPING))) =>
                  /\ Get(p, "escolaridad") = Num(1)
                  /\ HasValue(p, "escolaridad_1", "Licenciatura")
                  /\ HasValue(p, "escolaridad_institucion_1", "UNAM")
                  /\ HasValue(p, "escolaridad_2", "Maestria")
                  /\ HasValue(p, "escolaridad_institucion_2", "IPN")
                  /\ Keys(p) \cap EscolaridadNames =
                         {"escolaridad", "escolaridad_1", "escolaridad_2",
                          "escolaridad_institucion_1",
                          "escolaridad_institucion_2"}
           /\ (\/ prog = "process_lxi_data"
                  /\ IsExample(EventsLabelled(m, "ESCOLARIDAD"))
               \/ prog = "lxi_dataprocessing_polars"
                  /\ IsExample(EventsLabelled(m, "escolaridad"))) =>
                  /\ HasValue(p, "escolaridad_tipo_1", "Licenciatura")
                  /\ HasValue(p, "escolaridad_detalle_1", "UNAM")
                  /\ HasValue(p, "escolaridad_periodo_1", "2000")
                  /\ HasValue(p, "escolaridad_tipo_2", "Maestria")
                  /\ HasValue(p, "escolaridad_detalle_2", "IPN")
                  /\ HasValue(p, "escolaridad_periodo_2", "2005")
                  /\ Keys(p) \cap EscolaridadNames =
                         {"escolaridad_tipo_1", "escolaridad_tipo_2",
                          "escolaridad_detalle_1", "escolaridad_detalle_2",
                          "escolaridad_periodo_1", "escolaridad_periodo_2"}

\* process_lxi_data.py has built the record of a member with the example
C6_Witness ==
    /\ prog = "process_lxi_data"
    /\ \E p \in Profiles :
          /\ IsExample(EventsLabelled(MemberOf(p), "ESCOLARIDAD"))
          /\ HasValue(p, "escolaridad_tipo_2", "Maestria")

---------------------------------------------------------------------------
(* C7: in the table of process_sheet3 of lxi_script.py a detail column     *)
(* holds null for every member without a record at that index, and the     *)
(* empty string only where the record exists and its source field is empty *)
C7_BackfillIsNull ==
    (prog = "lxi_script" /\ TableBuilt) =>
        \A r \in 1..Len(df_sheet3_processed.rows) :
            LET row == df_sheet3_processed.rows[r]
            IN \A b \in 1..Len(ScriptBlocks) :
                   LET part == EventsOf(row["dip_id"][2], ScriptBlocks[b][1],
                                        TIPO_ACTIVIDAD_MAPPING)
                       fields == ScriptBlocks[b][3]
                   IN \A f \in 1..Len(fields), i \in 1..Len(sheet3.rows) :
                          LET c == Numbered(fields[f][1], i)
                          IN c \in Range(df_sheet3_processed.columns) =>
                                 IF i > Cardinality(part)
                                 THEN row[c] = Null
                                 ELSE /\ row[c] # Null
                                      /\ row[c] = Str("") =>
                                             sheet3.rows[Nth(part, i)]
                                                 [fields[f][2]]
                                             \in {Null, Str("")}

\* one member with two exp_apf records, the first without descripcion, and
\* another member with none
C7_Witness ==
    /\ prog = "lxi_script"
    /\ pc = "merge"
    /\ "exp_apf_2" \in Range(df_sheet3_processed.columns)
    /\ \E r1, r2 \in 1..Len(df_sheet3_processed.rows) :
          /\ df_sheet3_processed.rows[r1]["exp_apf_1"] = Str("")
          /\ df_sheet3_processed.rows[r1]["exp_apf_2"] # Null
          /\ df_sheet3_processed.rows[r2]["exp_apf_1"] = Null
          /\ df_sheet3_processed.rows[r2]["exp_apf_2"] = Null

---------------------------------------------------------------------------
(* C8: the rows of the table of process_sheet3 (lxi_script.py and          *)
(* lxi_dataprocessing_polars.py) are strictly ascending by dip_id whatever *)
(* the order of the event rows.                                            *)
C8_RowsAscendingByDipId ==
    (prog \in {"lxi_script", "lxi_dataprocessing_polars"} /\ TableBuilt) =>
        StrictlyAscending(DipIds(df_sheet3_processed))

\* a table of two rows built from events that arrive in descending order
C8_Witness ==
    /\ prog = "lxi_script"
    /\ pc = "merge"
    /\ Len(df_sheet3_processed.rows) = 2
    /\ sheet3.rows[1]["dip_id"] > sheet3.rows[Len(sheet3.rows)]["dip_id"]

---------------------------------------------------------------------------
(* C9: in the table of run_pipeline the dip_id values are unique and the   *)
(* rows ascending by dip_id whatever the row order of the sheets.          *)
C9_FinalRowsAscendingUnique ==
    Merged => StrictlyAscending(DipIds(df_final))

\* the half of C9 that lxi_dataprocessing_polars.py satisfies
C9_PolarsFinalRows ==
    prog = "lxi_dataprocessing_polars" => C9_FinalRowsAscendingUnique

---------------------------------------------------------------------------
(* C10: the table of process_sheet3 of lxi_script.py has one row for each  *)
(* distinct dip_id of the events and no dip_id in two rows.                *)
C10_OneRowPerMember ==
    (prog = "lxi_script" /\ TableBuilt) =>
        LET members == {sheet3.rows[j]["dip_id"] : j \in 1..Len(sheet3.rows)}
            out == DipIds(df_sheet3_processed)
        IN /\ Len(out) = Cardinality(members)
           /\ Range(out) = members
           /\ \A i, j \in 1..Len(out) : out[i] = out[j] => i = j

\* three events of two members give two rows
C10_Witness ==
    /\ prog = "lxi_script"
    /\ pc = "merge"
    /\ Len(sheet3.rows) = 3
    /\ Len(df_sheet3_processed.rows) = 2

---------------------------------------------------------------------------
(* C11: the columns of the table process_sheet3 of lxi_script.py returns   *)
(* for a Sheet3 with members are exactly the keys that occur in the flat   *)
(* records of the members: every key is a column, every column is a key.   *)
C11_ColumnsAreUnionOfKeys ==
    (prog = "lxi_script" /\ TableBuilt /\ results # <<>>) =>
        Range(df_sheet3_processed.columns) = UNION {Keys(p) : p \in Profiles}

\* the property holds while all records lie inside the inference window
C11_WithinInferenceWindow ==
    (prog = "lxi_script" /\ TableBuilt /\ results # <<>>
        /\ Len(results) <= infer_schema_length) =>
        Range(df_sheet3_processed.columns) = UNION {Keys(p) : p \in Profiles}

---------------------------------------------------------------------------
(* C12: process_sheet3 of lxi_script.py keeps every row of Sheet3 with its *)
(* cells and adds tipo_actividad_std, which is the registry's value for a  *)
(* label that is a key of TIPO_ACTIVIDAD_MAPPING and the label itself for  *)
(* any other label.                                                        *)
C12_CanonicalOnHitLabelOnMiss ==
    (prog = "lxi_script" /\ pc # "process_sheet3" /\ ~is_empty(sheet3)) =>
        /\ Len(df.rows) = Len(sheet3.rows)
        /\ \A i \in 1..Len(sheet3.rows) :
              LET label == sheet3.rows[i]["tipo"]
                  std == df.rows[i]["tipo_actividad_std"]
              IN /\ \A c \in Range(sheet3.columns) :
                        df.rows[i][c] = sheet3.rows[i][c]
                 /\ \A k \in DOMAIN TIPO_ACTIVIDAD_MAPPING :
                        label = k => std = TIPO_ACTIVIDAD_MAPPING[k]
                 /\ label \notin DOMAIN TIPO_ACTIVIDAD_MAPPING => std = label

\* a Sheet3 with a label of the registry, its spelling without accents and
\* a label outside the registry
C12_Witness ==
    /\ prog = "lxi_script"
    /\ pc = "members"
    /\ \E i, j, k \in 1..Len(df.rows) :
          /\ df.rows[i]["tipo"] = "ADMINISTRACIÓN PÚBLICA FEDERAL"
          /\ df.rows[i]["tipo_actividad_std"] = "exp_apf"
          /\ df.rows[j]["tipo"] = "ADMINISTRACION PUBLICA FEDERAL"
          /\ df.rows[j]["tipo_actividad_std"] = "exp_apf"
          /\ df.rows[k]["tipo"] = "OTRO"
          /\ df.rows[k]["tipo_actividad_std"] = "OTRO"

---------------------------------------------------------------------------
(* C13: in a flat record of lxi_script.py every field other than dip_id    *)
(* and the presence flags holds text, and the field of a record whose      *)
(* source cell is null holds the empty text, never null.                   *)
C13_DetailValuesAreText ==
    prog = "lxi_script" =>
        \A p \in Profiles :
            /\ \A k \in Keys(p) \ ({"dip_id"} \cup
                   {ScriptBlocks[b][2] : b \in 1..Len(ScriptBlocks)}) :
                   Get(p, k)[1] = "str"
            /\ \A b \in 1..Len(ScriptBlocks) :
                   LET part == EventsOf(MemberOf(p), ScriptBlocks[b][1],
                                        TIPO_ACTIVIDAD_MAPPING)
                       fields == ScriptBlocks[b][3]
                   IN \A i \in 1..Cardinality(part), f \in 1..Len(fields) :
                          sheet3.rows[Nth(part, i)][fields[f][2]] = Null =>
                              Get(p, Numbered(fields[f][1], i)) = Str("")

\* an exp_apf record without descripcion: the field is there and is empty
C13_Witness ==
    /\ prog = "lxi_script"
    /\ \E p \in Profiles :
          /\ Has(p, "exp_apf_1")
          /\ Get(p, "exp_apf_1") = Str("")
          /\ Get(p, "exp_apf_periodo_1") = Str("2010")

---------------------------------------------------------------------------
(* Vocabulary of the properties on the column order *)

\* the place of column c in the final table
Place(c) == CHOOSE i \in 1..Len(df_final.columns) : df_final.columns[i] = c

\* the place column c had before the reordering (kept in its cell)
PlaceBefore(c) == df_final.rows[1][c][2]

Present(c) == c \in Range(df_final.columns)

\* p_i is left of p_j for all indices i < j of numbered columns present
InIndexOrder(prefix, top) ==
    \A i \in 1..top, j \in 1..top :
        (i < j /\ Present(ColumnName(prefix, i))
               /\ Present(ColumnName(prefix, j))) =>
            Place(ColumnName(prefix, i)) < Place(ColumnName(prefix, j))

LegacyPrefixes ==
    {<<"e", "s", "c", "o", "l", "a", "r", "i", "d", "a", "d", "_", "t", "i", "p", "o", "_">>,
     <<"e", "s", "c", "o", "l", "a", "r", "i", "d", "a", "d", "_", "d", "e", "t", "a", "l", "l", "e", "_">>,
     <<"e", "s", "c", "o", "l", "a", "r", "i", "d", "a", "d", "_", "p", "e", "r", "i", "o", "d", "o", "_">>}

ScriptPrefixes ==
    {<<"e", "s", "c", "o", "l", "a", "r", "i", "d", "a", "d", "_">>,
     <<"e", "s", "c", "o", "l", "a", "r", "i", "d", "a", "d", "_", "i", "n", "s", "t", "i", "t", "u", "c", "i", "o", "n", "_">>}

---------------------------------------------------------------------------
\* a table of lxi_dataprocessing_polars.py or process_lxi_data.py with
\* every base-info column and every pre-listed flag
CompleteTable ==
    UNION {Range(get_column_groups[g][2]) : g \in 1..Len(get_column_groups)}
        \subseteq Range(df_final.columns)

(* C14: natural_sort_key of lxi_dataprocessing_polars.py and of            *)
(* process_lxi_data.py orders names of one prefix by the value of their    *)
(* index: the sort of the groups of a table returns, in either program,    *)
(* and leaves the numbered columns of a group in the order of their        *)
(* indices, as the list x_2, x_10, x_1 sorts to x_1, x_2, x_10.            *)
C14_NaturalSortByIndex ==
    /\ (prog \in {"lxi_dataprocessing_polars", "process_lxi_data"}
            /\ CompleteTable) => pc # "error"
    /\ (prog \in {"lxi_dataprocessing_polars", "process_lxi_data"}
            /\ pc = "save") =>
           \A p \in LegacyPrefixes : InIndexOrder(p, MaxIndex + 1)
    /\ sort_natural(<<<<"x", "_", "2">>, <<"x", "_", "1", "0">>, <<"x", "_", "1">>>>)
           = <<<<"x", "_", "1">>, <<"x", "_", "2">>, <<"x", "_", "1", "0">>>>

\* what holds: the key and the sort of process_lxi_data.py
C14_PandasSortsByIndex ==
    /\ sort_natural(<<<<"x", "_", "2">>, <<"x", "_", "1", "0">>, <<"x", "_", "1">>>>)
           = <<<<"x", "_", "1">>, <<"x", "_", "2">>, <<"x", "_", "1", "0">>>>
    /\ \A p \in LegacyPrefixes \cup {<<"x", "_">>} :
           \A i \in 1..(MaxIndex + 1), j \in 1..(MaxIndex + 1) :
               i < j => /\ KeyLess(natural_sort_key(ColumnName(p, i)),
                                   natural_sort_key(ColumnName(p, j)))
                        /\ ~KeyLess(natural_sort_key(ColumnName(p, j)),
                                    natural_sort_key(ColumnName(p, i)))
    /\ (prog = "process_lxi_data" /\ pc = "save") =>
           \A p \in LegacyPrefixes : InIndexOrder(p, MaxIndex + 1)

\* a table of process_lxi_data.py that came with escolaridad_tipo_10 left
\* of escolaridad_tipo_2 and leaves with escolaridad_tipo_2 left of
\* escolaridad_tipo_10
C14_Witness ==
    /\ prog = "process_lxi_data"
    /\ pc = "save"
    /\ Present(ColumnName(<<"e", "s", "c", "o", "l", "a", "r", "i", "d", "a", "d", "_", "t", "i", "p", "o", "_">>, 10))
    /\ PlaceBefore(ColumnName(<<"e", "s", "c", "o", "l", "a", "r", "i", "d", "a", "d", "_", "t", "i", "p", "o", "_">>, 10))
           < PlaceBefore(ColumnName(<<"e", "s", "c", "o", "l", "a", "r", "i", "d", "a", "d", "_", "t", "i", "p", "o", "_">>, 2))
    /\ Place(ColumnName(<<"e", "s", "c", "o", "l", "a", "r", "i", "d", "a", "d", "_", "t", "i", "p", "o", "_">>, 2))
           < Place(ColumnName(<<"e", "s", "c", "o", "l", "a", "r", "i", "d", "a", "d", "_", "t", "i", "p", "o", "_">>, 10))

\* the run of lxi_dataprocessing_polars.py on a complete table with
\* numbered columns ended in the NameError of natural_sort_key
C14_PolarsSortRaised ==
    /\ prog = "lxi_dataprocessing_polars"
    /\ pc = "error"
    /\ CompleteTable
    /\ Present(ColumnName(<<"e", "s", "c", "o", "l", "a", "r", "i", "d", "a", "d", "_", "t", "i", "p", "o", "_">>, 10))

---------------------------------------------------------------------------
(* C15: in the table reordered by lxi_script.py or by                      *)
(* multiarchivo_procesamiento_congreso.py the numbered columns of one      *)
(* prefix stand in the order of their indices taken as integers.           *)
C15_NumberedColumnsInIndexOrder ==
    (prog \in {"lxi_script", "multiarchivo_procesamiento_congreso"}
        /\ pc = "save") =>
        \A p \in ScriptPrefixes : InIndexOrder(p, MaxIndex + 1)

\* the order of the indices is kept among the indices of one digit
C15_OneDigitIndicesInOrder ==
    (prog \in {"lxi_script", "multiarchivo_procesamiento_congreso"}
        /\ pc = "save") =>
        \A p \in ScriptPrefixes : InIndexOrder(p, 9)

---------------------------------------------------------------------------
(* C16: the table process_sheet3 of lxi_script.py returns is a function of *)
(* the event table alone: whatever order unique() hands the deputies in,   *)
(* the columns, their order, the rows, their order and the cells are those *)
(* of TableOf(sheet3), so two runs on one Sheet3 return equal tables.      *)
MemberIds(sheet) == {sheet.rows[i]["dip_id"] : i \in 1..Len(sheet.rows)}

TableOf(sheet) ==
    IF is_empty(sheet) THEN EmptyFrame(<<"dip_id">>)
    ELSE LET members == MemberIds(sheet)
             std == with_tipo_actividad_std(sheet)
         IN DataFrame([k \in 1..Cardinality(members) |->
                process_deputy_profile(
                    Nth(members, k),
                    filter(std, "dip_id", Nth(members, k)))])

C16_TableIsFunctionOfSheet ==
    (prog = "lxi_script" /\ TableBuilt) =>
        df_sheet3_processed = TableOf(sheet3)

\* a Sheet3 that names deputy 2 before deputy 1, both with events that
\* leave fields in the table
C16_Witness ==
    /\ prog = "lxi_script"
    /\ pc = "merge"
    /\ Len(sheet3.rows) = 3
    /\ sheet3.rows[1]["dip_id"] = 2
    /\ sheet3.rows[2]["dip_id"] = 1
    /\ Len(df_sheet3_processed.rows) = 2
    /\ "escolaridad_1" \in Range(df_sheet3_processed.columns)
    /\ "exp_apf_1" \in Range(df_sheet3_processed.columns)

---------------------------------------------------------------------------
(* C17: in lxi_script.py an event whose raw label is no key of             *)
(* TIPO_ACTIVIDAD_MAPPING changes nothing in the flat record: the flag of  *)
(* a category is 1 exactly when the deputy has an event whose label the    *)
(* registry maps to it, and the detail fields of the category are numbered *)
(* by those events alone.                                                  *)

\* positions in Sheet3 of the events of member m whose label is a key of
\* the registry mapped to category c
EventsMapped(m, c) ==
    {j \in 1..Len(sheet3.rows) :
        /\ sheet3.rows[j]["dip_id"] = m
        /\ sheet3.rows[j]["tipo"] \in DOMAIN TIPO_ACTIVIDAD_MAPPING
        /\ TIPO_ACTIVIDAD_MAPPING[sheet3.rows[j]["tipo"]] = c}

C17_UnmappedLabelContributesNothing ==
    prog = "lxi_script" =>
        \A p \in Profiles :
            \A b \in 1..Len(ScriptBlocks) :
                LET part == EventsMapped(MemberOf(p), ScriptBlocks[b][1])
                    fields == ScriptBlocks[b][3]
                IN /\ Get(p, ScriptBlocks[b][2]) =
                          Num(IF part # {} THEN 1 ELSE 0)
                   /\ \A f \in 1..Len(fields), i \in 1..Len(sheet3.rows) :
                          Has(p, Numbered(fields[f][1], i))
                              <=> i <= Cardinality(part)

\* a label outside the registry that is not spelled like a category
\* contributes nothing
C17_LabelUnlikeAnyCategory ==
    prog = "lxi_script" =>
        \A p \in Profiles :
            (\A j \in 1..Len(sheet3.rows) :
                sheet3.rows[j]["dip_id"] = MemberOf(p) =>
                    sheet3.rows[j]["tipo"] = "OTRO") =>
                /\ \A b \in 1..Len(ScriptBlocks) :
                       Get(p, ScriptBlocks[b][2]) = Num(0)
                /\ Len(p) = 1 + Len(ScriptBlocks)

---------------------------------------------------------------------------
(* C18: in lxi_dataprocessing_polars.py an event labelled with a label of  *)
(* actividades_mapping lands in the category the registry gives it: a      *)
(* deputy with an "Actividad Empresarial" event has actividad_empresarial_1,*)
(* one with an "ESCOLARIDAD" event has escolaridad_tipo_1, one with an     *)
(* "ADMINISTRACIÓN PÚBLICA FEDERAL" event has experiencia_apf = 1.         *)
C18_RegistryLabelReachesCategory ==
    prog = "lxi_dataprocessing_polars" =>
        \A p \in Profiles :
            /\ EventsLabelled(MemberOf(p), "Actividad Empresarial") # {} =>
                   Has(p, "actividad_empresarial_1")
            /\ EventsLabelled(MemberOf(p), "ESCOLARIDAD") # {} =>
                   Has(p, "escolaridad_tipo_1")
            /\ EventsLabelled(MemberOf(p), "ADMINISTRACIÓN PÚBLICA FEDERAL")
                   # {} => Get(p, "experiencia_apf") = Num(1)

\* the categories are reached by events whose raw tipo is the canonical
\* key itself
C18_RawKeyReachesCategory ==
    prog = "lxi_dataprocessing_polars" =>
        \A p \in Profiles :
            /\ EventsLabelled(MemberOf(p), "exp_empresarial") # {} =>
                   Has(p, "actividad_empresarial_1")
            /\ EventsLabelled(MemberOf(p), "escolaridad") # {} =>
                   Has(p, "escolaridad_tipo_1")
            /\ EventsLabelled(MemberOf(p), "exp_apf") # {} =>
                   Get(p, "experiencia_apf") = Num(1)

---------------------------------------------------------------------------
(* Fields absent from the schema of Sheet3 *)

Absent(col) == col \notin Range(sheet3.columns)

\* member m has an event of a category whose block in lxi_script.py
\* projects a column that Sheet3 lacks
ProjectsAbsentScript(m) ==
    \/ /\ EventsMapped(m, "escolaridad") # {}
       /\ (Absent("descripcion") \/ Absent("detalle"))
    \/ /\ EventsMapped(m, "exp_apf") # {}
       /\ (Absent("descripcion") \/ Absent("periodo"))

\* the same for the functions of lxi_dataprocessing_polars.py
ProjectsAbsentPolars(m) ==
    \/ /\ EventsLabelled(m, "escolaridad") # {}
       /\ (Absent("descripcion") \/ Absent("detalle") \/ Absent("periodo"))
    \/ /\ EventsLabelled(m, "exp_apf") # {}
       /\ (Absent("descripcion") \/ Absent("detalle"))

\* the cell of column col in the i-th row among the positions rows
CellOf(rows, i, col) ==
    IF Absent(col) THEN Str("") ELSE Text(sheet3.rows[Nth(rows, i)][col])

(* C19 as stated: when a field that a category template projects is       *)
(* absent from the schema of Sheet3 the core fails, so no flat record is   *)
(* ever built for a member with an event of such a category.               *)
C19_AbsentFieldFails ==
    \A p \in Profiles :
        /\ prog = "lxi_script" => ~ProjectsAbsentScript(MemberOf(p))
        /\ prog = "lxi_dataprocessing_polars" =>
               ~ProjectsAbsentPolars(MemberOf(p))

(* C19, per program: lxi_dataprocessing_polars.py fails exactly at the     *)
(* first member with an event of a category whose function reads an absent *)
(* field and builds no record for that member; lxi_script.py never fails   *)
(* and writes the empty string for every detail field projected from an    *)
(* absent field; in both a null cell of a present field gives "".          *)
C19_AbsentFieldPerProgram ==
    /\ prog = "lxi_script" =>
        /\ pc # "error"
        /\ \A p \in Profiles :
            LET esc == EventsMapped(MemberOf(p), "escolaridad")
                apf == EventsMapped(MemberOf(p), "exp_apf")
            IN /\ \A i \in 1..Cardinality(esc) :
                     /\ Get(p, Numbered("escolaridad_", i))
                            = CellOf(esc, i, "descripcion")
                     /\ Get(p, Numbered("escolaridad_institucion_", i))
                            = CellOf(esc, i, "detalle")
               /\ \A i \in 1..Cardinality(apf) :
                     /\ Get(p, Numbered("exp_apf_", i))
                            = CellOf(apf, i, "descripcion")
                     /\ Get(p, Numbered("exp_apf_periodo_", i))
                            = CellOf(apf, i, "periodo")
    /\ prog = "lxi_dataprocessing_polars" =>
        /\ pc = "error" => ProjectsAbsentPolars(Head(ids))
        /\ pc = "merge" =>
               \A m \in MemberIds(sheet3) :
                   /\ ~ProjectsAbsentPolars(m)
                   /\ \E p \in Profiles : MemberOf(p) = m
        /\ \A p \in Profiles :
            LET esc == EventsLabelled(MemberOf(p), "escolaridad")
            IN /\ ~ProjectsAbsentPolars(MemberOf(p))
               /\ ~Raised(p)
               /\ \A i \in 1..Cardinality(esc) :
                     Get(p, Numbered("escolaridad_tipo_", i))
                         = CellOf(esc, i, "descripcion")

\* lxi_dataprocessing_polars.py has built the record of one member and
\* fails at the next, whose escolaridad event needs the absent periodo
C19_Witness ==
    /\ prog = "lxi_dataprocessing_polars"
    /\ pc = "error"
    /\ Absent("periodo")
    /\ Len(results) = 1
    /\ EventsLabelled(Head(ids), "escolaridad") # {}

\* lxi_script.py has built a record from a table without detalle
C19_ScriptAbsorbsAbsentField ==
    /\ prog = "lxi_script"
    /\ pc = "merge"
    /\ Absent("detalle")
    /\ \E p \in Profiles :
          /\ Has(p, "escolaridad_institucion_1")
          /\ Get(p, "escolaridad_institucion_1") = Str("")

---------------------------------------------------------------------------
(* Presence flags of lxi_script.py *)

\* the 13 canonical categories: <<category, flag, prefixes of its detail
\* fields>>
ScriptCategories ==
    << <<"escolaridad", "escolaridad",
         <<"escolaridad_", "escolaridad_institucion_">> >>,
       <<"exp_politica", "exp_politica",
         <<"exp_politica_", "exp_politica_periodo_">> >>,
       <<"exp_laboral_privada", "exp_laboral_privada",
         <<"exp_laboral_privada_">> >>,
       <<"exp_leg_previa", "exp_leg_previa",
         <<"exp_leg_previa_", "exp_leg_previa_periodo_">> >>,
       <<"exp_apf", "exp_apf", <<"exp_apf_", "exp_apf_periodo_">> >>,
       <<"exp_aplocal", "exp_aplocal",
         <<"exp_aplocal_", "exp_aplocal_periodo_">> >>,
       <<"cargos_legislativos_previa", "cargos_legislativos_previa",
         <<"cargo_legislativo_", "cargo_legislativo_periodo_">> >>,
       <<"cargos_electos_previos", "cargo_eleccion_popular",
         <<"cargo_eleccion_popular_", "cargo_eleccion_popular_partido_",
           "cargo_eleccion_popular_periodo_">> >>,
       <<"exp_asociaciones", "exp_asociaciones", <<"asociacion_">> >>,
       <<"exp_docente", "exp_docente",
         <<"exp_docente_", "exp_docente_institucion_">> >>,
       <<"publicaciones", "publicaciones", <<"publicacion_">> >>,
       <<"exp_empresarial", "exp_empresarial", <<"exp_empresarial_">> >>,
       <<"logros_deportivos", "logros_deportivos",
         <<"logro_deportivo_">> >> >>

(* C20: every flat record of lxi_script.py has the presence flag of each   *)
(* of the 13 canonical categories, 1 when the member's partition of the    *)
(* category has rows and 0 when it is empty; for an empty partition the    *)
(* record has no numbered detail field of the category.                    *)
C20_EveryRecordHasThirteenFlags ==
    prog = "lxi_script" =>
        /\ Cardinality({ScriptCategories[k][1] : k \in 1..13}) = 13
        /\ Cardinality({ScriptCategories[k][2] : k \in 1..13}) = 13
        /\ \A p \in Profiles : \A k \in 1..13 :
            LET cat == ScriptCategories[k]
                part == EventsOf(MemberOf(p), cat[1], TIPO_ACTIVIDAD_MAPPING)
            IN /\ Has(p, cat[2])
               /\ Get(p, cat[2]) = (IF part = {} THEN Num(0) ELSE Num(1))
               /\ part = {} =>
                      \A j \in 1..Len(cat[3]), i \in 1..(MaxRows + 1) :
                          ~Has(p, Numbered(cat[3][j], i))

\* a record with one category present and the twelve others empty
C20_Witness ==
    /\ prog = "lxi_script"
    /\ pc = "merge"
    /\ \E p \in Profiles :
          /\ Get(p, "escolaridad") = Num(1)
          /\ Has(p, "escolaridad_1")
          /\ \A k \in 2..13 :
                /\ Get(p, ScriptCategories[k][2]) = Num(0)
                /\ ~Has(p, Numbered(ScriptCategories[k][3][1], 1))

---------------------------------------------------------------------------
(* Presence flags of lxi_dataprocessing_polars.py *)

\* the fields of a record that hold a 0/1 presence flag
FlagKeys(p) ==
    {k \in Keys(p) : k # "dip_id" /\ Get(p, k) \in {Num(0), Num(1)}}

\* the categories handled by process_deputy_profile that write a flag:
\* <<tipo compared with, flag>>; actividad_docente is apart because its
\* flag also needs a row whose actividad is "Docente"
PolarsFlagged ==
    << <<"exp_apf", "experiencia_apf">>,
       <<"exp_aplocal", "experiencia_aplocal">>,
       <<"exp_asociaciones", "asociaciones">>,
       <<"cargos_electos_previos", "cargo_eleccion_popular">>,
       <<"cargos_legislativos_previa", "experiencia_legislativa">>,
       <<"exp_laboral_privada", "empleo_privado">>,
       <<"logros_deportivos", "deportista_altorend">>,
       <<"exp_politica", "experiencia_pol">> >>

\* the handled categories that write no flag: <<tipo, first detail field>>
PolarsUnflagged ==
    << <<"exp_empresarial", "actividad_empresarial_1">>,
       <<"escolaridad", "escolaridad_tipo_1">>,
       <<"exp_leg_previa", "exp_leg_previa_1">> >>

HandledCategories == 12

(* C21 as stated: of the 12 categories handled by process_deputy_profile   *)
(* of lxi_dataprocessing_polars.py only escolaridad writes no presence     *)
(* flag, so every record carries 11 flags.                                 *)
C21_OnlyEscolaridadUnflagged ==
    prog = "lxi_dataprocessing_polars" =>
        \A p \in Profiles :
            /\ ~Has(p, "escolaridad")
            /\ Cardinality(FlagKeys(p)) = HandledCategories - 1

(* C21, as the code has it: three handled categories (actividad            *)
(* empresarial, escolaridad, experiencia legislativa previa) write no      *)
(* presence flag; each of the nine others writes its 0/1 flag in every     *)
(* record, 1 exactly when the member has a row of that tipo (for           *)
(* actividad_docente: and one of them has actividad = "Docente").          *)
C21_ThreeCategoriesUnflagged ==
    prog = "lxi_dataprocessing_polars" =>
        \A p \in Profiles :
            /\ FlagKeys(p) = {PolarsFlagged[k][2] : k \in 1..8}
                                 \cup {"actividad_docente"}
            /\ Cardinality(FlagKeys(p)) = HandledCategories - 3
            /\ \A k \in 1..8 :
                  Get(p, PolarsFlagged[k][2]) =
                      (IF EventsLabelled(MemberOf(p), PolarsFlagged[k][1])
                              # {}
                       THEN Num(1) ELSE Num(0))
            /\ Get(p, "actividad_docente") =
                   (IF \E j \in EventsLabelled(MemberOf(p), "exp_docente") :
                           /\ "actividad" \in Range(sheet3.columns)
                           /\ sheet3.rows[j]["actividad"] = Str("Docente")
                    THEN Num(1) ELSE Num(0))
            /\ \A k \in 1..3 :
                  Has(p, PolarsUnflagged[k][2]) <=>
                      EventsLabelled(MemberOf(p), PolarsUnflagged[k][1])
                          # {}

\* a record with a flagged category present (exp_apf) and an unflagged
\* one present (escolaridad)
C21_Witness ==
    /\ prog = "lxi_dataprocessing_polars"
    /\ pc = "merge"
    /\ \E p \in Profiles :
          /\ Get(p, "experiencia_apf") = Num(1)
          /\ Has(p, "escolaridad_tipo_1")
          /\ ~Has(p, "escolaridad")
          /\ Cardinality(FlagKeys(p)) = 9

---------------------------------------------------------------------------
(* Field names of the flat record of lxi_script.py *)

\* detail fields the first k categories write for member m: one per
\* projected field and row of the partition
RECURSIVE DetailFields(_, _)
DetailFields(m, k) ==
    IF k = 0 THEN 0
    ELSE DetailFields(m, k - 1)
         + Len(ScriptCategories[k][3])
           * Cardinality(EventsOf(m, ScriptCategories[k][1],
                                  TIPO_ACTIVIDAD_MAPPING))

(* C22: in a flat record of lxi_script.py no two writes share a field      *)
(* name: the record has 1 + 13 + (detail fields of all partitions) keys,   *)
(* its keys are pairwise different, and every numbered field of a          *)
(* non-empty partition is in the record.                                   *)
C22_NoKeyCollision ==
    prog = "lxi_script" =>
        \A p \in Profiles :
            /\ Len(p) = 1 + 13 + DetailFields(MemberOf(p), 13)
            /\ Cardinality(Keys(p)) = Len(p)
            /\ \A k \in 1..13 :
                LET cat == ScriptCategories[k]
                    part == EventsOf(MemberOf(p), cat[1],
                                     TIPO_ACTIVIDAD_MAPPING)
                IN \A j \in 1..Len(cat[3]), i \in 1..Cardinality(part) :
                       Has(p, Numbered(cat[3][j], i))

\* a record with detail fields of two categories: 1 + 13 + 2 + 2 keys
C22_Witness ==
    /\ prog = "lxi_script"
    /\ \E p \in Profiles :
          /\ Cardinality(EventsOf(MemberOf(p), "escolaridad",
                                  TIPO_ACTIVIDAD_MAPPING)) = 1
          /\ Cardinality(EventsOf(MemberOf(p), "exp_apf",
                                  TIPO_ACTIVIDAD_MAPPING)) = 1
          /\ Len(p) = 18

---------------------------------------------------------------------------
(* Group order of lxi_dataprocessing_polars.py and process_lxi_data.py *)

Reordered ==
    /\ prog \in {"lxi_dataprocessing_polars", "process_lxi_data"}
    /\ pc = "save"

\* the place in get_column_groups of the group that holds column c
GroupRank(c) ==
    CHOOSE g \in 1..Len(get_column_groups) :
        \/ c \in Range(get_column_groups[g][2])
        \/ GroupOf(c) = get_column_groups[g][1]

\* columns of different groups stand in the order of their groups
GroupsInListedOrder ==
    \A c \in Range(df_final.columns), d \in Range(df_final.columns) :
        GroupRank(c) < GroupRank(d) => Place(c) < Place(d)

\* the columns of the groups from the given one on stand, inside their
\* group, in the order of natural_sort_key
NaturalOrderInGroups(from) ==
    \A c \in Range(df_final.columns), d \in Range(df_final.columns) :
        (/\ GroupRank(c) = GroupRank(d)
         /\ GroupRank(c) >= from
         /\ KeyLess(natural_sort_key(c), natural_sort_key(d)))
            => Place(c) < Place(d)

(* C23 as stated: the reordered table has the base-info columns first, in  *)
(* the sequence get_column_groups lists them, then the groups in their     *)
(* listed sequence, each group in natural_sort_key order.                  *)
C23_BaseInfoInListedSequence ==
    Reordered =>
        /\ \A i \in 1..Len(base_info), j \in 1..Len(base_info) :
               (i < j /\ Present(base_info[i]) /\ Present(base_info[j]))
                   => Place(base_info[i]) < Place(base_info[j])
        /\ GroupsInListedOrder
        /\ NaturalOrderInGroups(2)

\* what the code does: the groups stand in their listed sequence and every
\* group, base_info included, is in natural_sort_key order
C23_EveryGroupInNaturalOrder ==
    Reordered => GroupsInListedOrder /\ NaturalOrderInGroups(1)

\* the reordered table begins with Url, the twelfth name of base_info
C23_UrlLeadsTheTable ==
    /\ Reordered
    /\ df_final.columns[1] = <<"U", "r", "l">>
    /\ Place(<<"d", "i", "p", "_", "i", "d">>) > 1

---------------------------------------------------------------------------
(* Columns that reorder_columns of lxi_dataprocessing_polars.py leaves out *)

\* the flags get_column_groups lists in advance
PrelistedFlags ==
    UNION {Range(get_column_groups[g][2]) :
              g \in 2..Len(get_column_groups)}

\* col begins with the prefix of a branch of the elif chain that does not
\* exclude it
MatchesRule(col) ==
    \E r \in 1..Len(CategoryRules) :
        startswith(col, CategoryRules[r][1]) /\ col # CategoryRules[r][3]

\* the names categorize_columns has put in the groups
Grouped(frame) ==
    LET column_groups == categorize_columns(frame, get_column_groups)
    IN UNION {Range(column_groups[g][2]) : g \in 1..Len(column_groups)}

(* C24: reorder_columns of lxi_dataprocessing_polars.py returns a table    *)
(* in which an input column is present exactly when it is a base-info      *)
(* column, a pre-listed flag or a column that a startswith rule takes;     *)
(* total_comites, experiencia_pol and nombre_completo_limpio are left out. *)
C24_UnmatchedColumnsAreDropped ==
    [][(prog = "lxi_dataprocessing_polars" /\ pc = "reorder"
            /\ CompleteTable) =>
          /\ pc' = "save"
          /\ \A c \in Range(df_final.columns) :
                 (c \in Range(df_final'.columns)) <=>
                     \/ c \in Range(base_info)
                     \/ c \in PrelistedFlags
                     \/ MatchesRule(c)
          /\ \A c \in Range(UngroupedColumns) :
                 c \notin Range(df_final'.columns)]_vars

\* what holds: the groups categorize_columns returns take in an input
\* column exactly when the claim says, and the three ungrouped columns
\* are in no group
C24_GroupsLeaveUnmatchedOut ==
    (prog = "lxi_dataprocessing_polars" /\ pc = "reorder") =>
        LET grouped == Grouped(df_final)
        IN /\ \A c \in Range(df_final.columns) :
                  (c \in grouped) <=>
                      \/ c \in Range(base_info)
                      \/ c \in PrelistedFlags
                      \/ MatchesRule(c)
           /\ \A c \in Range(UngroupedColumns) : c \notin grouped

\* the run on a complete table that came with the three ungrouped columns
\* ended in the NameError of the sort, with the table as it came
C24_Witness ==
    /\ prog = "lxi_dataprocessing_polars"
    /\ pc = "error"
    /\ CompleteTable
    /\ Present(<<"t", "o", "t", "a", "l", "_", "c", "o", "m", "i", "t", "e", "s">>)
    /\ Present(<<"e", "s", "c", "o", "l", "a", "r", "i", "d", "a", "d", "_", "t", "i", "p", "o", "_", "1">>)

---------------------------------------------------------------------------
(* Member independence *)

\* the rows of Sheet3 of member m, and nothing else of the table
Slice(m) ==
    [columns |-> sheet3.columns,
     rows |-> SelectSeq(sheet3.rows, LAMBDA r : r["dip_id"] = m)]

\* the flat record of member m computed from the slice of m alone
RecordOf(m) ==
    IF prog = "lxi_script"
    THEN process_deputy_profile(m, with_tipo_actividad_std(Slice(m)))
    ELSE IF prog = "lxi_dataprocessing_polars"
    THEN process_deputy_profile_polars(m, Slice(m))
    ELSE sheet3_results_entry(m, Slice(m))

(* C25: the flat record built for member m is a function of the rows of   *)
(* Sheet3 with dip_id = m alone: in every run, whatever the other members' *)
(* rows and whatever the order the members are visited in, it equals the   *)
(* record computed from the slice of m, and there is one record per member *)
(* visited.                                                                *)
C25_RecordDependsOnOwnRowsOnly ==
    /\ \A k \in 1..Len(results) :
           results[k] = RecordOf(MemberOf(results[k]))
    /\ \A k \in 1..Len(results), l \in 1..Len(results) :
           MemberOf(results[k]) = MemberOf(results[l]) => k = l

\* two members with rows interleaved in Sheet3, both records built
C25_Witness ==
    /\ prog = "lxi_script"
    /\ Len(results) = 2
    /\ Len(sheet3.rows) = 3
    /\ sheet3.rows[1]["dip_id"] = sheet3.rows[3]["dip_id"]
    /\ sheet3.rows[1]["dip_id"] # sheet3.rows[2]["dip_id"]
    /\ Has(results[1], "escolaridad_1")
    /\ Has(results[2], "escolaridad_1")

---------------------------------------------------------------------------
(* Left join of merge_dataframes of lxi_script.py *)

\* the columns the table of process_sheet3 brings besides the key
Sheet3Fields == Range(df_sheet3_processed.columns) \ {"dip_id"}

\* the row of the Sheet3 table of the deputy d, when there is one
HasProfileRow(d) ==
    \E k \in 1..Len(df_sheet3_processed.rows) :
        df_sheet3_processed.rows[k]["dip_id"] = d

ProfileRow(d) ==
    df_sheet3_processed.rows[
        CHOOSE k \in 1..Len(df_sheet3_processed.rows) :
            df_sheet3_processed.rows[k]["dip_id"] = d]

(* C27: after merge_dataframes of lxi_script.py the final table has the    *)
(* rows of Sheet1, one for one and in their order; a row of a deputy       *)
(* without a row in the Sheet3 table has null in every Sheet3 column, a    *)
(* row of a deputy with one carries its values, and a dip_id that is only  *)
(* in the Sheet3 table is in no row.                                       *)
C27_LeftJoinOnSheet1 ==
    (prog = "lxi_script" /\ pc = "reorder") =>
        /\ Len(df_final.rows) = Len(df_sheet1_processed.rows)
        /\ \A i \in 1..Len(df_final.rows) :
            LET d == df_final.rows[i]["dip_id"]
            IN /\ d = df_sheet1_processed.rows[i]["dip_id"]
               /\ Sheet3Fields \subseteq Range(df_final.columns)
               /\ \A c \in Sheet3Fields :
                     df_final.rows[i][c] =
                         (IF HasProfileRow(d) THEN ProfileRow(d)[c]
                          ELSE Null)
        /\ \A k \in 1..Len(df_sheet3_processed.rows) :
              (\A i \in 1..Len(df_sheet1_processed.rows) :
                   df_sheet1_processed.rows[i]["dip_id"]
                       # df_sheet3_processed.rows[k]["dip_id"])
              => \A i \in 1..Len(df_final.rows) :
                     df_final.rows[i]["dip_id"]
                         # df_sheet3_processed.rows[k]["dip_id"]

\* Sheet1 lists deputy 1 only and the Sheet3 table deputy 2 only: one final
\* row, of deputy 1, with a null escolaridad
C27_Witness ==
    /\ prog = "lxi_script"
    /\ pc = "reorder"
    /\ Len(df_final.rows) = 1
    /\ df_final.rows[1]["dip_id"] = Num(1)
    /\ Len(df_sheet3_processed.rows) = 1
    /\ df_sheet3_processed.rows[1]["dip_id"] = Num(2)
    /\ "escolaridad" \in Range(df_final.columns)
    /\ df_final.rows[1]["escolaridad"] = Null

---------------------------------------------------------------------------
(* reorder_columns of lxi_script.py and of                                 *)
(* multiarchivo_procesamiento_congreso.py as a permutation                 *)

\* the priority list of the program that runs
PriorityOf(program) ==
    IF program = "lxi_script" THEN priority_cols
    ELSE priority_cols_multiarchivo

\* the place of name c in the sequence cols
PlaceIn(cols, c) == CHOOSE i \in 1..Len(cols) : cols[i] = c

(* C28: the table reorder_columns returns has every input column exactly   *)
(* once and no other; the priority columns that exist come first, in the   *)
(* order of the priority list, and the remaining columns follow in         *)
(* ascending order as texts.                                               *)
C28_ReorderIsPermutation ==
    [][(prog \in {"lxi_script", "multiarchivo_procesamiento_congreso"}
            /\ pc = "reorder" /\ pc' = "save") =>
          LET before == df_final.columns
              after == df_final'.columns
              priority == PriorityOf(prog)
              first == {c \in Range(before) : c \in Range(priority)}
          IN /\ Len(after) = Len(before)
             /\ Range(after) = Range(before)
             /\ \A i \in 1..Len(after), j \in 1..Len(after) :
                    after[i] = after[j] => i = j
             /\ \A c \in first : PlaceIn(after, c) <= Cardinality(first)
             /\ \A c \in first, d \in first :
                    PlaceIn(priority, c) < PlaceIn(priority, d)
                        => PlaceIn(after, c) < PlaceIn(after, d)
             /\ \A c \in Range(before) \ first, d \in Range(before) \ first :
                    TextLess(c, d) => PlaceIn(after, c) < PlaceIn(after, d)
             /\ df_final'.rows = df_final.rows]_vars

\* a table that came with its columns from the last to the first and
\* leaves with dip_id in front and escolaridad_10 left of escolaridad_2
C28_Witness ==
    /\ prog = "multiarchivo_procesamiento_congreso"
    /\ pc = "save"
    /\ df_final.columns[1] = <<"d", "i", "p", "_", "i", "d">>
    /\ PlaceBefore(<<"d", "i", "p", "_", "i", "d">>) = Len(df_final.columns)
    /\ Present(<<"e", "s", "c", "o", "l", "a", "r", "i", "d", "a", "d", "_", "1", "0">>)
    /\ Place(<<"e", "s", "c", "o", "l", "a", "r", "i", "d", "a", "d", "_", "1", "0">>)
           < Place(<<"e", "s", "c", "o", "l", "a", "r", "i", "d", "a", "d", "_", "2">>)

---------------------------------------------------------------------------
(* The names reorder_columns of lxi_dataprocessing_polars.py gathers *)

\* every name of the groups is a column of the table, and is there once
SelectsOnlyInputColumns ==
    LET column_groups == categorize_columns(df_final, get_column_groups)
        out == Flatten([g \in 1..Len(column_groups) |-> column_groups[g][2]])
    IN /\ \A c \in Range(out) : c \in Range(df_final.columns)
       /\ \A i \in 1..Len(out), j \in 1..Len(out) : out[i] = out[j] => i = j

C29_CompleteTablesProject ==
    (prog \in {"lxi_dataprocessing_polars", "process_lxi_data"}
        /\ CompleteTable) => SelectsOnlyInputColumns

\* reorder_columns of lxi_dataprocessing_polars.py was called on the
\* merged table of an empty Sheet3, which has Url and none of the
\* pre-listed flags: the groups name actividad_docente
C29_FlagAbsentButGathered ==
    /\ prog = "lxi_dataprocessing_polars"
    /\ pc = "error"
    /\ Present(<<"U", "r", "l">>)
    /\ ~Present(<<"a", "c", "t", "i", "v", "i", "d", "a", "d", "_", "d", "o", "c", "e", "n", "t", "e">>)
    /\ ~SelectsOnlyInputColumns

\* the run of process_lxi_data.py ended in the error of the projection on
\* a table without Url
C29_SelectRaised ==
    /\ prog = "process_lxi_data"
    /\ pc = "error"
    /\ <<"U", "r", "l">> \notin Range(df_final.columns)

---------------------------------------------------------------------------
(* C26: a run of run_pipeline of lxi_script.py that raised while loading, *)
(* processing, merging or reordering has left the caller with the         *)
(* exception and no output file; the output file exists only once the run *)
(* has returned, and then it holds the merged table of the three          *)
(* processed sheets in the order reorder_columns gave it.                 *)
C26_OutputOnlyAfterWholeRun ==
    /\ pc = "raised" => output_file = NoFile
    /\ output_file # NoFile =>
           /\ pc = "returned"
           /\ df_sheet3_processed # NoFrame
           /\ output_file = Parquet(df_final)
           /\ df_final = reorder_columns_named(
                  merge_dataframes(df_sheet1_processed, df_sheet2_processed,
                                   df_sheet3_processed))
    /\ pc = "returned" => output_file # NoFile

\* the reordering raised after the three sheets were merged
C26_Witness ==
    /\ pc = "raised"
    /\ df_final # NoFrame
    /\ Len(df_final.rows) > 1
    /\ output_file = NoFile

\* a run that returned and wrote a table with rows
C26_RunWroteTheTable ==
    /\ pc = "returned"
    /\ output_file # NoFile
    /\ Len(output_file.table.rows) > 1

---------------------------------------------------------------------------
(* The bookkeeping of process_batch *)
StatusOf(entry) == Get(entry, "status")

\* the three counters cover the files
C30_CountsAddUp ==
    (prog = "multiarchivo_procesamiento_congreso" /\ pc = "returned") =>
        batch_results.success + batch_results.errors + batch_results.skipped
            = Len(files)

\* skipped counts the files whose output is newer, when skipping is on
C30_SkippedOnlyWhenUpToDate ==
    (prog = "multiarchivo_procesamiento_congreso" /\ pc = "returned") =>
        /\ batch_results.skipped =
               Cardinality({i \in 1..Len(files) :
                   /\ skip_existing
                   /\ disk[i] # 0
                   /\ disk[i] # Now
                   /\ disk[i] > files[i].st_mtime})
        /\ \A k \in 1..Len(batch_results.details) :
               StatusOf(batch_results.details[k]) = Str("skipped") =>
                   \E i \in 1..Len(files) :
                       /\ Get(batch_results.details[k], "file")
                              = Str(files[i].name)
                       /\ skip_existing
                       /\ disk[i] \notin {0, Now}
                       /\ disk[i] > files[i].st_mtime

\* a workbook run_pipeline raised on leaves no output of this batch
C30_NoOutputWhenPipelineRaised ==
    prog = "multiarchivo_procesamiento_congreso" =>
        \A i \in 1..Len(files) :
            files[i].pipeline = "raises" => disk[i] # Now

\* details lists the files one for one
C30_OneEntryPerFileInListOrder ==
    (prog = "multiarchivo_procesamiento_congreso" /\ pc = "returned") =>
        /\ Len(batch_results.details) = Len(files)
        /\ \A i \in 1..Len(files) :
               Get(batch_results.details[i], "file") = Str(files[i].name)

(* C30: when process_batch returns, success + errors + skipped is the     *)
(* number of files, details has exactly one entry per file, in list       *)
(* order, a file is counted skipped only when skip_existing is true and   *)
(* its output exists with a later modification time than the input, and   *)
(* no output was written for a file whose run_pipeline raised.            *)
C30_EveryFileHandledOnce ==
    /\ C30_CountsAddUp
    /\ C30_OneEntryPerFileInListOrder
    /\ C30_SkippedOnlyWhenUpToDate
    /\ C30_NoOutputWhenPipelineRaised

\* what the loop does instead: two entries for every file it did not
\* skip, and no file is ever counted a success
C30_ProcessedFilesCountAsErrors ==
    (prog = "multiarchivo_procesamiento_congreso" /\ pc = "returned") =>
        /\ batch_results.success = 0
        /\ batch_results.errors = Len(files) - batch_results.skipped
        /\ Len(batch_results.details)
               = batch_results.skipped + 2 * batch_results.errors

\* a batch whose only file was processed and written, and is counted an
\* error
C30_WrittenFileCountedAsError ==
    /\ pc = "returned"
    /\ Len(files) = 1
    /\ disk[1] = Now
    /\ batch_results.errors = 1
    /\ Len(batch_results.details) = 2

====
